---- MODULE Spec2Model ----
(***************************************************************************)
(* Model of the currency input session of react-native-format-kit:        *)
(* the pure helpers of src/core/currency.ts and the state machine of      *)
(* src/hooks/useCurrencyInput.ts.                                          *)
(*                                                                         *)
(* Strings are sequences of one-character strings.  Numbers are records   *)
(* [k, n, nz]: k is "num", "null" or "nan"; n is the number in units of    *)
(* 10^-Scale (exact decimal arithmetic; IEEE-754 rounding noise is not     *)
(* modelled); nz marks the negative zero, which Intl.NumberFormat prints   *)
(* with a minus sign.  Locale is en-US and currency USD throughout.        *)
(*                                                                         *)
(* The options of a session, the validate callback included, and the       *)
(* callbacks of CurrencyInput keep their identity between the renders in   *)
(* which the owner changes none of them, so the effects of the hook run on *)
(* mount, when the value prop changes and when an option or the mask       *)
(* changes.  (A validate written inline gets a new identity at every       *)
(* render of the owner, which re-runs both setValue effects after each     *)
(* such render; that usage is not modelled.)  The error prop and the       *)
(* onChangeValue and onValidationError effects of                          *)
(* src/components/CurrencyInput.tsx are part of the session.  The          *)
(* formatter of src/core/Formatter.types.ts is called on its own.          *)
(*                                                                         *)
(* Four specifications: Spec is the session of the hook with a render      *)
(* between any two operations; BatchSpec is the typing session in which a  *)
(* second text change may be handled before the re-render; CallSpec calls  *)
(* the pure functions directly; MaskedLive is MaskedInput over             *)
(* useMaskedInput with an owner that stores every onChangeValue argument   *)
(* in the value prop, under weak fairness of the commit (React always      *)
(* runs a scheduled render and its effects).                               *)
(***************************************************************************)
EXTENDS Integers, Sequences, FiniteSets, TLC

\* ---------------------------------------------------------------- bounds
MaxLen == 3            \* longest text handed to handleChangeText
Scale == MaxLen        \* decimal places carried by the number representation

\* ------------------------------------------------------ program constants
DEFAULT_FRACTION_DIGITS == 2
MIN_ZERO == 0

\* --------------------------------------------------------------- numbers
RECURSIVE Pow10(_)
Pow10(k) == IF k <= 0 THEN 1 ELSE 10 * Pow10(k - 1)

One == Pow10(Scale)

Null == [k |-> "null", n |-> 0, nz |-> FALSE]
NaN == [k |-> "nan", n |-> 0, nz |-> FALSE]
Undefined == [k |-> "undef", n |-> 0, nz |-> FALSE]
\* the number Infinity: larger than every bound, printed as "Infinity"
Infinity == [k |-> "inf", n |-> 0, nz |-> FALSE]
InfinityDigits == <<"I", "n", "f", "i", "n", "i", "t", "y">>
Num(n) == [k |-> "num", n |-> n, nz |-> FALSE]
NegZero == [k |-> "num", n |-> 0, nz |-> TRUE]
\* the integer i, and the decimal i/10^d, as numbers of the model
Int2Num(i) == Num(i * One)
Dec2Num(i, d) == Num(i * Pow10(Scale - d))

IsNumber(v) == v.k = "num"
\* typeof x === "number" for an optional option
IsSet(v) == v.k = "num"
\* JavaScript unary minus
Negate(v) == IF v.n = 0 THEN [v EXCEPT !.nz = ~v.nz] ELSE Num(-v.n)
Abs(n) == IF n < 0 THEN -n ELSE n
\* Math.round(x * 10^digits) for x = n / 10^Scale and digits <= Scale (half rounds up)
RoundScaled(n, digits) ==
  IF digits >= Scale THEN n * Pow10(digits - Scale)
  ELSE (n + Pow10(Scale - digits) \div 2) \div Pow10(Scale - digits)
Max(a, b) == IF a >= b THEN a ELSE b
Min(a, b) == IF a <= b THEN a ELSE b

\* --------------------------------------------------------------- strings
Digits == {"0", "1", "2", "3", "4", "5", "6", "7", "8", "9"}
IsDigit(c) == c \in Digits
DigitVal(c) ==
  CASE c = "0" -> 0 [] c = "1" -> 1 [] c = "2" -> 2 [] c = "3" -> 3
    [] c = "4" -> 4 [] c = "5" -> 5 [] c = "6" -> 6 [] c = "7" -> 7
    [] c = "8" -> 8 [] OTHER -> 9
DigitChar(d) ==
  CASE d = 0 -> "0" [] d = 1 -> "1" [] d = 2 -> "2" [] d = 3 -> "3"
    [] d = 4 -> "4" [] d = 5 -> "5" [] d = 6 -> "6" [] d = 7 -> "7"
    [] d = 8 -> "8" [] OTHER -> "9"

\* Number(s) for a string of ASCII digits (Number("") is 0)
RECURSIVE NumberOf(_)
NumberOf(s) ==
  IF s = <<>> THEN 0
  ELSE 10 * NumberOf(SubSeq(s, 1, Len(s) - 1)) + DigitVal(s[Len(s)])

\* n.toString() for a non-negative integer
RECURSIVE ToDigits(_)
ToDigits(n) ==
  IF n < 10 THEN <<DigitChar(n)>>
  ELSE Append(ToDigits(n \div 10), DigitChar(n % 10))

RECURSIVE Zeros(_)
Zeros(k) == IF k <= 0 THEN <<>> ELSE <<"0">> \o Zeros(k - 1)

\* s.padStart(k, "0")
PadStart(s, k) == Zeros(k - Len(s)) \o s
\* s.slice(from) and s.slice(0, to) for 0 <= from, to
SliceFrom(s, from) == SubSeq(s, Min(from, Len(s)) + 1, Len(s))
SliceTo(s, to) == SubSeq(s, 1, Min(to, Len(s)))
EndsWith(s, c) == Len(s) > 0 /\ s[Len(s)] = c
Includes(s, c) == \E i \in 1..Len(s) : s[i] = c

\* s.replace(/^0+(?=\d)/, "")
RECURSIVE StripLeadingZeros(_)
StripLeadingZeros(s) ==
  IF Len(s) >= 2 /\ s[1] = "0" /\ IsDigit(s[2])
  THEN StripLeadingZeros(Tail(s))
  ELSE s

\* src/core/currency.ts stripToDigits
stripToDigits(input) == SelectSeq(input, IsDigit)

\* getDecimalSeparator(locale) for en-US
DecimalSeparator == "."
getDecimalSeparator == DecimalSeparator

\* index of the first separator of s, 0 when there is none
FirstSep(s) ==
  IF Includes(s, DecimalSeparator)
  THEN CHOOSE i \in 1..Len(s) :
         s[i] = DecimalSeparator /\ \A j \in 1..(i - 1) : s[j] # DecimalSeparator
  ELSE 0
\* s.split(sep)[0] and s.split(sep).slice(1).join("")
SplitHead(s) == IF FirstSep(s) = 0 THEN s ELSE SubSeq(s, 1, FirstSep(s) - 1)
SplitRest(s) ==
  IF FirstSep(s) = 0 THEN <<>>
  ELSE SelectSeq(SubSeq(s, FirstSep(s) + 1, Len(s)), LAMBDA c : c # DecimalSeparator)

\* ------------------------------------------------ src/core/currency.ts
\* mutant: the maximum is not raised to the minimum
resolveFractionDigits_notRaised(options) ==
  LET base == IF IsSet(options.fractionDigits) THEN options.fractionDigits.n
              ELSE DEFAULT_FRACTION_DIGITS
      minFractionDigits == IF IsSet(options.minimumFractionDigits)
                           THEN options.minimumFractionDigits.n ELSE base
      maxFractionDigits == IF IsSet(options.maximumFractionDigits)
                           THEN options.maximumFractionDigits.n ELSE base
  IN [minFractionDigits |-> Max(0, minFractionDigits),
      maxFractionDigits |-> maxFractionDigits]

resolveFractionDigits(options) ==
  LET base == IF IsSet(options.fractionDigits) THEN options.fractionDigits.n
              ELSE DEFAULT_FRACTION_DIGITS
      minFractionDigits == IF IsSet(options.minimumFractionDigits)
                           THEN options.minimumFractionDigits.n ELSE base
      maxFractionDigits == IF IsSet(options.maximumFractionDigits)
                           THEN options.maximumFractionDigits.n ELSE base
      min == Max(0, minFractionDigits)
      max == Max(min, maxFractionDigits)
  IN [minFractionDigits |-> min, maxFractionDigits |-> max]

\* maxDigits is used through its truthiness: undefined and 0 both mean "no cap"
Truthy(maxDigits) == IsSet(maxDigits) /\ maxDigits.n # 0

\* mutant: the cap keeps the leading digits instead of the trailing ones
applyMaxDigits_keepsFirst(digits, fractionDigits, maxDigits) ==
  IF ~Truthy(maxDigits) THEN [digits |-> digits, hitMaxDigits |-> FALSE]
  ELSE IF Max(0, Len(digits) - fractionDigits) <= maxDigits.n
  THEN [digits |-> digits, hitMaxDigits |-> FALSE]
  ELSE [digits |-> SliceTo(digits, maxDigits.n + fractionDigits),
        hitMaxDigits |-> TRUE]

\* mutant: the digits are never capped
applyMaxDigits_passthrough(digits, fractionDigits, maxDigits) ==
  [digits |-> digits, hitMaxDigits |-> FALSE]

\* mutant: the digits are truncated without raising the flag
applyMaxDigits_silent(digits, fractionDigits, maxDigits) ==
  IF ~Truthy(maxDigits) THEN [digits |-> digits, hitMaxDigits |-> FALSE]
  ELSE [digits |-> IF Max(0, Len(digits) - fractionDigits) <= maxDigits.n
                   THEN digits
                   ELSE SliceFrom(digits, Len(digits) - (maxDigits.n + fractionDigits)),
        hitMaxDigits |-> FALSE]

applyMaxDigits(digits, fractionDigits, maxDigits) ==
  IF ~Truthy(maxDigits) THEN [digits |-> digits, hitMaxDigits |-> FALSE]
  ELSE LET integerDigits == Max(0, Len(digits) - fractionDigits)
           totalAllowed == maxDigits.n + fractionDigits
       IN IF integerDigits <= maxDigits.n
          THEN [digits |-> digits, hitMaxDigits |-> FALSE]
          ELSE [digits |-> SliceFrom(digits, Len(digits) - totalAllowed),
                hitMaxDigits |-> TRUE]

\* mutant: the value is lowered to the maximum before it is raised to the minimum
ClampSteps_maximumFirst(value, allowNegative, minimumValue, maximumValue) ==
  LET a == IF ~allowNegative /\ value.n < 0
           THEN (IF IsSet(minimumValue) THEN minimumValue ELSE Num(MIN_ZERO))
           ELSE value
      b == IF IsSet(maximumValue) /\ a.n > maximumValue.n THEN maximumValue ELSE a
      c == IF IsSet(minimumValue) /\ b.n < minimumValue.n THEN minimumValue ELSE b
  IN c

\* the clamping shared by clampIncomingValue and parseCurrencyFromDigits
ClampSteps(value, allowNegative, minimumValue, maximumValue) ==
  LET a == IF ~allowNegative /\ value.n < 0
           THEN (IF IsSet(minimumValue) THEN minimumValue ELSE Num(MIN_ZERO))
           ELSE value
      b == IF IsSet(minimumValue) /\ a.n < minimumValue.n THEN minimumValue ELSE a
      c == IF IsSet(maximumValue) /\ b.n > maximumValue.n THEN maximumValue ELSE b
  IN c

\* Intl.NumberFormat(en-US, {style: "currency", currency: "USD"}) grouping
RECURSIVE Group(_)
Group(ds) ==
  IF Len(ds) <= 3 THEN ds
  ELSE Group(SubSeq(ds, 1, Len(ds) - 3)) \o <<",">> \o SubSeq(ds, Len(ds) - 2, Len(ds))

\* drop trailing zeros of a fraction while more than min digits remain
RECURSIVE TrimFraction(_, _)
TrimFraction(fs, min) ==
  IF Len(fs) > min /\ fs[Len(fs)] = "0"
  THEN TrimFraction(SubSeq(fs, 1, Len(fs) - 1), min)
  ELSE fs

formatCurrency(value, options) ==
  LET fd == resolveFractionDigits(options)
      min == fd.minFractionDigits
      max == fd.maxFractionDigits
      \* |value| * 10^max, rounded half away from zero
      scaled == RoundScaled(Abs(value.n), max)
      intDigits == ToDigits(scaled \div Pow10(max))
      fracAll == IF max = 0 THEN <<>> ELSE PadStart(ToDigits(scaled % Pow10(max)), max)
      frac == TrimFraction(fracAll, min)
      sign == IF value.n < 0 \/ value.nz THEN <<"-">> ELSE <<>>
  IN IF ~IsNumber(value) THEN <<>>
     ELSE sign \o <<"$">> \o Group(intDigits)
          \o (IF frac = <<>> THEN <<>> ELSE <<DecimalSeparator>> \o frac)

\* mutant: the digits are negated whenever isNegative is given
parseCurrencyFromDigits_alwaysNegates(digits, options) ==
  LET maxFractionDigits == resolveFractionDigits(options).maxFractionDigits
      sanitized == stripToDigits(digits)
      limited == applyMaxDigits(sanitized, maxFractionDigits, options.maxDigits).digits
      magnitude == Num(NumberOf(limited) * Pow10(Scale - maxFractionDigits))
      signed == IF options.isNegative THEN Negate(magnitude) ELSE magnitude
  IN IF sanitized = <<>> THEN Null
     ELSE ClampSteps(signed, options.allowNegative,
                     options.minimumValue, options.maximumValue)

parseCurrencyFromDigits(digits, options) ==
  LET maxFractionDigits == resolveFractionDigits(options).maxFractionDigits
      sanitized == stripToDigits(digits)
      limited == applyMaxDigits(sanitized, maxFractionDigits, options.maxDigits).digits
      \* Number(limited) / 10^maxFractionDigits
      magnitude == Num(NumberOf(limited) * Pow10(Scale - maxFractionDigits))
      signed == IF options.isNegative /\ options.allowNegative
                THEN Negate(magnitude) ELSE magnitude
  IN IF sanitized = <<>> THEN Null
     ELSE ClampSteps(signed, options.allowNegative,
                     options.minimumValue, options.maximumValue)

\* mutant: the sign of the value is not reported
digitsFromValue_unsigned(value, fractionDigits) ==
  IF value = Infinity THEN [digits |-> InfinityDigits, isNegative |-> FALSE]
  ELSE IF ~IsNumber(value) THEN [digits |-> <<>>, isNegative |-> FALSE]
  ELSE [digits |-> ToDigits(RoundScaled(Abs(value.n), fractionDigits)),
        isNegative |-> FALSE]

digitsFromValue(value, fractionDigits) ==
  \* Math.round(Infinity * factor).toString()
  IF value = Infinity THEN [digits |-> InfinityDigits, isNegative |-> FALSE]
  ELSE IF ~IsNumber(value) THEN [digits |-> <<>>, isNegative |-> FALSE]
  ELSE [digits |-> ToDigits(RoundScaled(Abs(value.n), fractionDigits)),
        isNegative |-> value.n < 0]

\* mutant: the leading zeros of the integer part are kept
formatRawDigits_keepsLeadingZeros(digits, options, mask, isNegative) ==
  LET fd == resolveFractionDigits(options)
      minFractionDigits == fd.minFractionDigits
      maxFractionDigits == fd.maxFractionDigits
      value == parseCurrencyFromDigits(digits,
                 [options EXCEPT !.fractionDigits = Num(maxFractionDigits),
                                 !.isNegative = isNegative])
      padded == PadStart(digits, maxFractionDigits + 1)
      integerPart == SliceTo(padded, Len(padded) - maxFractionDigits)
      decimalPart == IF maxFractionDigits > 0
                     THEN SliceFrom(padded, Len(padded) - maxFractionDigits)
                     ELSE <<>>
      stripped == integerPart
      normalizedInteger == IF stripped = <<>> THEN <<"0">> ELSE stripped
      sign == IF isNegative THEN <<"-">> ELSE <<>>
  IN IF mask = "currency"
     THEN [text |-> formatCurrency(value,
                      [options EXCEPT !.minimumFractionDigits = Num(minFractionDigits),
                                      !.maximumFractionDigits = Num(maxFractionDigits)]),
           rawValue |-> digits]
     ELSE IF digits = <<>> THEN [text |-> <<>>, rawValue |-> <<>>]
     ELSE IF maxFractionDigits = 0
          THEN [text |-> sign \o normalizedInteger, rawValue |-> digits]
          ELSE [text |-> sign \o normalizedInteger \o <<DecimalSeparator>> \o decimalPart,
                rawValue |-> digits]

formatRawDigits(digits, options, mask, isNegative) ==
  LET fd == resolveFractionDigits(options)
      minFractionDigits == fd.minFractionDigits
      maxFractionDigits == fd.maxFractionDigits
      value == parseCurrencyFromDigits(digits,
                 [options EXCEPT !.fractionDigits = Num(maxFractionDigits),
                                 !.isNegative = isNegative])
      padded == PadStart(digits, maxFractionDigits + 1)
      integerPart == SliceTo(padded, Len(padded) - maxFractionDigits)
      decimalPart == IF maxFractionDigits > 0
                     THEN SliceFrom(padded, Len(padded) - maxFractionDigits)
                     ELSE <<>>
      stripped == StripLeadingZeros(integerPart)
      normalizedInteger == IF stripped = <<>> THEN <<"0">> ELSE stripped
      sign == IF isNegative THEN <<"-">> ELSE <<>>
  IN IF mask = "currency"
     THEN [text |-> formatCurrency(value,
                      [options EXCEPT !.minimumFractionDigits = Num(minFractionDigits),
                                      !.maximumFractionDigits = Num(maxFractionDigits)]),
           rawValue |-> digits]
     ELSE IF digits = <<>> THEN [text |-> <<>>, rawValue |-> <<>>]
     ELSE IF maxFractionDigits = 0
          THEN [text |-> sign \o normalizedInteger, rawValue |-> digits]
          ELSE [text |-> sign \o normalizedInteger \o <<DecimalSeparator>> \o decimalPart,
                rawValue |-> digits]

\* ------------------------------------- src/hooks/useCurrencyInput.ts
areValuesEqual(a, b, fractionDigits) ==
  IF a.k = "null" /\ b.k = "null" THEN TRUE
  ELSE IF a.k = "null" \/ b.k = "null" THEN FALSE
  ELSE \* Math.round(x * factor): round half up; NaN never equals anything
       /\ IsNumber(a) /\ IsNumber(b)
       /\ RoundScaled(a.n, fractionDigits) = RoundScaled(b.n, fractionDigits)

clampIncomingValue(incoming, options) ==
  IF incoming = Infinity
  THEN (IF IsSet(options.maximumValue) THEN options.maximumValue ELSE Infinity)
  ELSE IF ~IsNumber(incoming) THEN Null
  ELSE ClampSteps(incoming, options.allowNegative,
                  options.minimumValue, options.maximumValue)

\* the caller-supplied validate(value): absent, or one that demands a value
\* and whole amounts (the README's "No cents allowed" example) and reports
\* "nothing wrong" as the empty string
CustomNull == [k |-> "null", s |-> ""]
CustomStr(s) == [k |-> "str", s |-> s]
Validate(validate, value) ==
  IF validate = "none" THEN CustomNull
  ELSE IF ~IsNumber(value) THEN CustomStr("Required")
  ELSE IF value.n % One # 0 THEN CustomStr("No cents allowed")
  ELSE CustomStr("")

\* error messages: <<>> is null, otherwise <<text, number interpolated>>
ErrNull == <<>>
Err(msg, n) == <<msg, n>>
CapMessage(maxDigits) == Err("Maximum digits is ", maxDigits.n)
NegativeMessage == Err("Negative values are not allowed", 0)
MinMessage(minimumValue) == Err("Value must be >= ", minimumValue.n)
MaxMessage(maximumValue) == Err("Value must be <= ", maximumValue.n)

\* mutant: a structural message, when there is one, is reported before the
\* custom validator's
buildError_structuralFirst(value, isNeg, hitMaxDigits, options) ==
  LET m1 == IF hitMaxDigits /\ Truthy(options.maxDigits)
            THEN <<CapMessage(options.maxDigits)>> ELSE <<>>
      m2 == IF ~options.allowNegative /\ isNeg THEN <<NegativeMessage>> ELSE <<>>
      m3 == IF IsSet(options.minimumValue) /\ IsNumber(value)
               /\ value.n < options.minimumValue.n
            THEN <<MinMessage(options.minimumValue)>> ELSE <<>>
      m4 == IF IsSet(options.maximumValue) /\ IsNumber(value)
               /\ value.n > options.maximumValue.n
            THEN <<MaxMessage(options.maximumValue)>> ELSE <<>>
      messages == m1 \o m2 \o m3 \o m4
      custom == Validate(options.validate, value)
  IN IF messages # <<>> THEN messages[1]
     ELSE IF custom.k = "str" /\ custom.s # "" THEN Err(custom.s, 0)
     ELSE ErrNull

\* mutant: the bound messages are collected before the cap and sign messages
buildError_boundsFirst(value, isNeg, hitMaxDigits, options) ==
  LET m1 == IF hitMaxDigits /\ Truthy(options.maxDigits)
            THEN <<CapMessage(options.maxDigits)>> ELSE <<>>
      m2 == IF ~options.allowNegative /\ isNeg THEN <<NegativeMessage>> ELSE <<>>
      m3 == IF IsSet(options.minimumValue) /\ IsNumber(value)
               /\ value.n < options.minimumValue.n
            THEN <<MinMessage(options.minimumValue)>> ELSE <<>>
      m4 == IF IsSet(options.maximumValue) /\ IsNumber(value)
               /\ value.n > options.maximumValue.n
            THEN <<MaxMessage(options.maximumValue)>> ELSE <<>>
      messages == m3 \o m4 \o m1 \o m2
      custom == Validate(options.validate, value)
  IN IF custom.k = "str" /\ custom.s # "" THEN Err(custom.s, 0)
     ELSE IF messages # <<>> THEN messages[1]
     ELSE ErrNull

buildError(value, isNeg, hitMaxDigits, options) ==
  LET m1 == IF hitMaxDigits /\ Truthy(options.maxDigits)
            THEN <<CapMessage(options.maxDigits)>> ELSE <<>>
      m2 == IF ~options.allowNegative /\ isNeg THEN <<NegativeMessage>> ELSE <<>>
      m3 == IF IsSet(options.minimumValue) /\ IsNumber(value)
               /\ value.n < options.minimumValue.n
            THEN <<MinMessage(options.minimumValue)>> ELSE <<>>
      m4 == IF IsSet(options.maximumValue) /\ IsNumber(value)
               /\ value.n > options.maximumValue.n
            THEN <<MaxMessage(options.maximumValue)>> ELSE <<>>
      messages == m1 \o m2 \o m3 \o m4
      custom == Validate(options.validate, value)
  IN IF custom.k = "str" /\ custom.s # "" THEN Err(custom.s, 0)
     ELSE IF messages # <<>> THEN messages[1]
     ELSE ErrNull

\* mutant: the digits are returned before the maxDigits truncation
normaliseValue_keepsAllDigits(incoming, options, fractionDigits) ==
  LET clampedValue == clampIncomingValue(incoming, options)
      dv == digitsFromValue(clampedValue, fractionDigits)
      limited == applyMaxDigits(dv.digits, fractionDigits, options.maxDigits)
      parsedValue == parseCurrencyFromDigits(limited.digits,
                       [options EXCEPT !.isNegative = dv.isNegative,
                                       !.fractionDigits = Num(fractionDigits)])
  IN [value |-> parsedValue,
      digits |-> dv.digits,
      isNegative |-> options.allowNegative /\ dv.isNegative,
      hitMaxDigits |-> limited.hitMaxDigits]

\* mutant: the clamped value is returned without the decode of its digits
normaliseValue_clampedValue(incoming, options, fractionDigits) ==
  LET clampedValue == clampIncomingValue(incoming, options)
      dv == digitsFromValue(clampedValue, fractionDigits)
      limited == applyMaxDigits(dv.digits, fractionDigits, options.maxDigits)
  IN [value |-> clampedValue,
      digits |-> limited.digits,
      isNegative |-> options.allowNegative /\ dv.isNegative,
      hitMaxDigits |-> limited.hitMaxDigits]

normaliseValue(incoming, options, fractionDigits) ==
  LET clampedValue == clampIncomingValue(incoming, options)
      dv == digitsFromValue(clampedValue, fractionDigits)
      limited == applyMaxDigits(dv.digits, fractionDigits, options.maxDigits)
      effectiveDigits == limited.digits
      parsedValue == parseCurrencyFromDigits(effectiveDigits,
                       [options EXCEPT !.isNegative = dv.isNegative,
                                       !.fractionDigits = Num(fractionDigits)])
  IN [value |-> parsedValue,
      digits |-> effectiveDigits,
      isNegative |-> options.allowNegative /\ dv.isNegative,
      hitMaxDigits |-> limited.hitMaxDigits]

\* mutant: the error is evaluated with the cap flag raised whatever the caller
\* passed
applyFormattedState_capFlagRaised(nextValue, digits, negative, hitMaxDigits, textOverride, options) ==
  IF textOverride # <<>>
  THEN [value |-> nextValue, rawDigits |-> digits, text |-> textOverride[1],
        isNegative |-> negative,
        error |-> buildError(nextValue, negative, TRUE, options)]
  ELSE LET formatted == formatRawDigits(digits, options, options.mask, negative)
       IN [value |-> nextValue, rawDigits |-> formatted.rawValue,
           text |-> formatted.text, isNegative |-> negative,
           error |-> buildError(nextValue, negative, TRUE, options)]

\* the five pieces of React state written by one applyFormattedState call
applyFormattedState(nextValue, digits, negative, hitMaxDigits, textOverride, options) ==
  IF textOverride # <<>>
  THEN [value |-> nextValue, rawDigits |-> digits, text |-> textOverride[1],
        isNegative |-> negative,
        error |-> buildError(nextValue, negative, hitMaxDigits, options)]
  ELSE LET formatted == formatRawDigits(digits, options, options.mask, negative)
       IN [value |-> nextValue, rawDigits |-> formatted.rawValue,
           text |-> formatted.text, isNegative |-> negative,
           error |-> buildError(nextValue, negative, hitMaxDigits, options)]

setValue(next, options) ==
  LET maxFractionDigits == resolveFractionDigits(options).maxFractionDigits
      normalised == normaliseValue(next, options, maxFractionDigits)
  IN applyFormattedState(normalised.value, normalised.digits, normalised.isNegative,
                         normalised.hitMaxDigits, <<>>, options)

\* inputText.replace(/[^0-9<sep>-]/g, ""); the separator survives only if keepSep
Cleaned(inputText, keepSep) ==
  SelectSeq(inputText,
            LAMBDA c : IsDigit(c) \/ c = "-" \/ (keepSep /\ c = DecimalSeparator))
\* cleaned.replace(/-/g, "")
Unsigned(cleaned) == SelectSeq(cleaned, LAMBDA c : c # "-")
\* mutant: only a leading '-' is taken as a sign
MinusCount_leadingOnly(inputText) ==
  IF Len(inputText) > 0 /\ inputText[1] = "-" THEN 1 ELSE 0

\* (inputText.match(/-/g) || []).length
MinusCount(inputText) == Len(SelectSeq(inputText, LAMBDA c : c = "-"))

\* ---- createCurrencyFormatter (core/Formatter.types.ts) ----

\* clampValue of the formatter: null and NaN give null, then the three steps
clampValue(incoming, options) ==
  LET afterSign == IF ~options.allowNegative /\ IsNumber(incoming) /\ incoming.n < 0
                   THEN (IF IsSet(options.minimumValue) THEN options.minimumValue
                         ELSE Num(0))
                   ELSE incoming
      afterMin == IF IsSet(options.minimumValue) /\ IsNumber(afterSign)
                     /\ afterSign.n < options.minimumValue.n
                  THEN options.minimumValue ELSE afterSign
      afterMax == IF IsSet(options.maximumValue)
                     /\ (afterMin = Infinity
                         \/ (IsNumber(afterMin) /\ afterMin.n > options.maximumValue.n))
                  THEN options.maximumValue ELSE afterMin
  IN IF incoming = Infinity \/ IsNumber(incoming) THEN afterMax ELSE Null

\* the messages of buildFormatterError, in the order they are pushed; a truthy
\* custom message is returned first, else messages[0] ?? null
buildFormatterError(value, isNegative, hitMaxDigits, options) ==
  LET cap == IF hitMaxDigits /\ Truthy(options.maxDigits)
             THEN <<CapMessage(options.maxDigits)>> ELSE <<>>
      neg == IF ~options.allowNegative /\ isNegative
             THEN <<NegativeMessage>> ELSE <<>>
      low == IF IsSet(options.minimumValue) /\ IsNumber(value)
                /\ value.n < options.minimumValue.n
             THEN <<MinMessage(options.minimumValue)>> ELSE <<>>
      high == IF IsSet(options.maximumValue) /\ IsNumber(value)
                 /\ value.n > options.maximumValue.n
              THEN <<MaxMessage(options.maximumValue)>> ELSE <<>>
      messages == cap \o neg \o low \o high
      custom == Validate(options.validate, value)
  IN IF custom.k = "str" /\ custom.s # "" THEN Err(custom.s, 0)
     ELSE IF messages # <<>> THEN messages[1]
     ELSE ErrNull

\* the result of parse has no error field when the text holds no digit
ErrUndefined == <<"undefined">>

\* format of createCurrencyFormatter(options): clamp, digits at the maximum
\* fraction scale, then formatRawDigits in the formatter's mask
format(value, options) ==
  LET safeValue == clampValue(value, options)
      dv == digitsFromValue(safeValue, resolveFractionDigits(options).maxFractionDigits)
  IN formatRawDigits(dv.digits, options, options.mask,
                     options.allowNegative /\ dv.isNegative)

\* parse of createCurrencyFormatter(options): the sign is the parity of the
\* '-' characters (only when negatives are allowed), the digits are every
\* digit of the text, capped, read at the maximum fraction scale
parse(inputText, options) ==
  LET fd == resolveFractionDigits(options)
      minusCount == IF options.allowNegative THEN MinusCount(inputText) ELSE 0
      negative == IF options.allowNegative THEN minusCount % 2 = 1 ELSE FALSE
      limited == applyMaxDigits(stripToDigits(inputText), fd.maxFractionDigits,
                                options.maxDigits)
      parsed == parseCurrencyFromDigits(
                  limited.digits,
                  [options EXCEPT !.fractionDigits = Num(fd.maxFractionDigits),
                                  !.minimumFractionDigits = Num(fd.minFractionDigits),
                                  !.maximumFractionDigits = Num(fd.maxFractionDigits),
                                  !.isNegative = negative])
  IN IF limited.digits = <<>>
     THEN [value |-> Null, rawValue |-> <<>>, error |-> ErrUndefined]
     ELSE [value |-> parsed, rawValue |-> limited.digits,
           error |-> buildFormatterError(parsed, negative, limited.hitMaxDigits,
                                         options)]

NormalizedInt(intPartRaw) ==
  IF StripLeadingZeros(intPartRaw) = <<>> THEN <<"0">> ELSE StripLeadingZeros(intPartRaw)

\* Number(frac) / 10^frac.length, 0 for the empty fraction
FractionValue(frac) == NumberOf(frac) * Pow10(Scale - Len(frac))

\* mutant: a rejected keystroke also clears the field
Rejected_clearsField(cur, options) ==
  [cur EXCEPT !.value = Null, !.rawDigits = <<>>, !.text = <<>>, !.isNegative = FALSE,
              !.error = buildError(cur.valueRef, cur.negativeRef, TRUE, options)]

\* mutant: the rejection forgets to raise the cap flag
Rejected_withoutCapFlag(cur, options) ==
  [cur EXCEPT !.error = buildError(cur.valueRef, cur.negativeRef, FALSE, options)]

\* the state left by the cap rejection: only setError is called
Rejected(cur, options) ==
  [cur EXCEPT !.error = buildError(cur.valueRef, cur.negativeRef, TRUE, options)]

\* handleChangeText with mask "none"
changeTextNone(cur, inputText, options) ==
  LET allowNegative == options.allowNegative
      nextNegative == IF allowNegative THEN MinusCount(inputText) % 2 = 1 ELSE FALSE
      cleaned == Cleaned(inputText, TRUE)
      unsigned == Unsigned(cleaned)
      hasSeparator == Includes(cleaned, DecimalSeparator)
      endsWithSeparator == EndsWith(cleaned, DecimalSeparator)
      intPartRaw == SplitHead(unsigned)
      fracPartRaw == SplitRest(unsigned)
      digitsOnly == stripToDigits(intPartRaw \o fracPartRaw)
      normalizedInt == NormalizedInt(intPartRaw)
      magnitude == Num(NumberOf(normalizedInt) * One + FractionValue(fracPartRaw))
      numeric == IF allowNegative /\ nextNegative THEN Negate(magnitude) ELSE magnitude
      parsedValue == clampIncomingValue(numeric, options)
      textValue == (IF allowNegative /\ nextNegative THEN <<"-">> ELSE <<>>)
                   \o normalizedInt
                   \o (IF hasSeparator \/ endsWithSeparator
                       THEN <<DecimalSeparator>> ELSE <<>>)
                   \o fracPartRaw
  IN IF Truthy(options.maxDigits) /\ Len(intPartRaw) > options.maxDigits.n
     THEN Rejected(cur, options)
     ELSE IF digitsOnly = <<>>
     THEN applyFormattedState(Null, <<>>, FALSE, FALSE, <<>>, options)
     ELSE applyFormattedState(parsedValue, digitsOnly, allowNegative /\ nextNegative,
                              FALSE, <<textValue>>, options)

\* mutant: the typed fraction is not cut to maxFractionDigits
FractionLimited_unlimited(fracPartRaw, allowFraction, maxFractionDigits) ==
  IF allowFraction THEN fracPartRaw ELSE <<>>

\* allowFraction ? fracPartRaw.slice(0, maxFractionDigits) : ""
FractionLimited(fracPartRaw, allowFraction, maxFractionDigits) ==
  IF allowFraction THEN SliceTo(fracPartRaw, maxFractionDigits) ELSE <<>>

\* mutant: a lone separator is treated like any text without digits
LoneSeparator_never(cleaned, allowFraction) == FALSE

\* allowFraction && cleaned === decimalSeparator
LoneSeparator(cleaned, allowFraction) ==
  allowFraction /\ cleaned = <<DecimalSeparator>>

\* handleChangeText with mask "currency"
changeTextCurrency(cur, inputText, options) ==
  LET allowNegative == options.allowNegative
      nextNegative == IF allowNegative THEN MinusCount(inputText) % 2 = 1 ELSE FALSE
      maxFractionDigits == resolveFractionDigits(options).maxFractionDigits
      allowFraction == maxFractionDigits > 0
      cleaned == Cleaned(inputText, allowFraction)
      unsigned == Unsigned(cleaned)
      intPartRaw == IF allowFraction THEN SplitHead(unsigned) ELSE unsigned
      fracPartRaw == IF allowFraction THEN SplitRest(unsigned) ELSE <<>>
      fractionLimited == FractionLimited(fracPartRaw, allowFraction, maxFractionDigits)
      digitsOnly == stripToDigits(intPartRaw \o fractionLimited)
      zeroBase == formatCurrency(IF allowNegative /\ nextNegative THEN NegZero ELSE Num(0),
                    [options EXCEPT !.fractionDigits = Undefined,
                                    !.minimumFractionDigits = Num(0),
                                    !.maximumFractionDigits = Num(maxFractionDigits)])
      normalizedInt == NormalizedInt(intPartRaw)
      magnitude == Num(NumberOf(normalizedInt) * One
                       + (IF Len(fractionLimited) > 0 THEN FractionValue(fractionLimited)
                          ELSE 0))
      numeric == IF allowNegative /\ nextNegative THEN Negate(magnitude) ELSE magnitude
      clamped == clampIncomingValue(numeric, options)
      endsWithSeparator == allowFraction /\ EndsWith(cleaned, DecimalSeparator)
      minFrac == IF Len(fractionLimited) > 0 THEN Len(fractionLimited) ELSE 0
      base == formatCurrency(clamped,
                [options EXCEPT !.fractionDigits = Undefined,
                                !.minimumFractionDigits = Num(minFrac),
                                !.maximumFractionDigits = Num(maxFractionDigits)])
      formattedText ==
        IF ~allowFraction
        THEN formatCurrency(clamped,
               [options EXCEPT !.fractionDigits = Undefined,
                               !.minimumFractionDigits = Num(0),
                               !.maximumFractionDigits = Num(0)])
        ELSE IF endsWithSeparator THEN base \o <<DecimalSeparator>>
        ELSE base
  IN IF Truthy(options.maxDigits) /\ Len(intPartRaw) > options.maxDigits.n
     THEN Rejected(cur, options)
     ELSE IF digitsOnly = <<>>
     THEN IF LoneSeparator(cleaned, allowFraction)
          THEN applyFormattedState(Num(0), <<"0">>, allowNegative /\ nextNegative, FALSE,
                                   <<zeroBase \o <<DecimalSeparator>>>>, options)
          ELSE applyFormattedState(Null, <<>>, FALSE, FALSE, <<>>, options)
     ELSE applyFormattedState(clamped, digitsOnly, allowNegative /\ nextNegative, FALSE,
                              <<formattedText>>, options)

\* mutant: the empty text returns early without clearing the state
handleChangeText_ignoresEmpty(cur, inputText, options) ==
  IF inputText = <<>> THEN cur
  ELSE IF options.mask = "none" THEN changeTextNone(cur, inputText, options)
  ELSE changeTextCurrency(cur, inputText, options)

\* handleChangeText(inputText): the React state after the call.  cur carries the
\* current state and the refs; a rejected keystroke keeps everything but error.
handleChangeText(cur, inputText, options) ==
  IF inputText = <<>>
  THEN applyFormattedState(Null, <<>>, FALSE, FALSE, <<>>, options)
  ELSE IF options.mask = "none" THEN changeTextNone(cur, inputText, options)
  ELSE changeTextCurrency(cur, inputText, options)

\* ------------------------------------------------------------- inputs
\* characters a keystroke can deliver: digits, the sign, the separator, other
Alphabet == {"0", "1", "-", ".", "a"}
AllTexts == UNION {[1..n -> Alphabet] : n \in 0..MaxLen}
Texts == {t \in AllTexts : Includes(t, "a") => Len(t) < MaxLen}

Count(n) == Num(n)
DefaultFraction ==
  [fractionDigits |-> Undefined, minimumFractionDigits |-> Undefined,
   maximumFractionDigits |-> Undefined]
FractionOptions ==
  { DefaultFraction,
    [fractionDigits |-> Count(0), minimumFractionDigits |-> Undefined,
     maximumFractionDigits |-> Undefined],
    [fractionDigits |-> Undefined, minimumFractionDigits |-> Count(0),
     maximumFractionDigits |-> Count(1)] }
BoundsOptions ==
  { [minimumValue |-> Undefined, maximumValue |-> Undefined],
    [minimumValue |-> Int2Num(1), maximumValue |-> Dec2Num(15, 1)] }
MaxDigitsOptions == {Undefined, Count(2)}
Validators == {"none", "strict"}

\* the options of a session; the custom validator is combined with the default
\* fraction digits only
Configs ==
  { [fractionDigits |-> f.fractionDigits,
     minimumFractionDigits |-> f.minimumFractionDigits,
     maximumFractionDigits |-> f.maximumFractionDigits,
     minimumValue |-> b.minimumValue, maximumValue |-> b.maximumValue,
     allowNegative |-> an, maxDigits |-> md, isNegative |-> FALSE,
     mask |-> m, validate |-> IF f = DefaultFraction THEN vd ELSE "none"] :
    f \in FractionOptions, b \in BoundsOptions, an \in BOOLEAN,
    md \in MaxDigitsOptions, m \in {"currency", "none"}, vd \in Validators }
  \cup
  \* a minimum below zero, with and without negatives allowed
  { [fractionDigits |-> Undefined, minimumFractionDigits |-> Undefined,
     maximumFractionDigits |-> Undefined,
     minimumValue |-> Int2Num(-1), maximumValue |-> Undefined,
     allowNegative |-> an, maxDigits |-> md, isNegative |-> FALSE,
     mask |-> m, validate |-> "none"] :
    an \in BOOLEAN, md \in MaxDigitsOptions, m \in {"currency", "none"} }
  \cup
  \* a minimum with more integer digits than maxDigits allows
  { [fractionDigits |-> Undefined, minimumFractionDigits |-> Undefined,
     maximumFractionDigits |-> Undefined,
     minimumValue |-> Int2Num(50), maximumValue |-> Undefined,
     allowNegative |-> FALSE, maxDigits |-> Count(1), isNegative |-> FALSE,
     mask |-> m, validate |-> "none"] :
    m \in {"currency", "none"} }

\* the error prop: undefined, null or a string
PropUndefined == [k |-> "undef", s |-> ""]
PropNull == [k |-> "null", s |-> ""]
PropStr(s) == [k |-> "str", s |-> s]
\* onValidationError has not been called yet
Unreported == <<"onValidationError not called">>

\* mutant: errorProp || error
effectiveError_orFalsy(prop, internal) ==
  IF prop.k = "str" /\ prop.s # "" THEN Err(prop.s, 0) ELSE internal

\* errorProp ?? error
effectiveError(prop, internal) ==
  IF prop.k = "str" THEN Err(prop.s, 0) ELSE internal

\* the error prop a session is given: every kind of prop for the sessions that
\* can raise cap, bound and custom messages, none for the others
ErrorProps == {PropUndefined, PropNull, PropStr(""), PropStr("Server error")}
ErrorPropsFor(c) ==
  IF c.mask = "currency" /\ c.validate = "strict" /\ c.maxDigits.k = "num"
  THEN ErrorProps ELSE {PropUndefined}

\* values handed to setValue and used as the initial value prop
SetValues ==
  { Null, NaN, Int2Num(0), Int2Num(1), Int2Num(-1), Dec2Num(15, 1), Dec2Num(-5, 3),
    Dec2Num(12345, 3), Dec2Num(12345, 1) }

\* option sets for direct calls of the utilities: bounds on either side of zero,
\* crossed bounds, a cap of 0, fraction limits given the wrong way round
CallFractionOptions ==
  FractionOptions \cup
  { [fractionDigits |-> Undefined, minimumFractionDigits |-> Count(2),
     maximumFractionDigits |-> Count(1)],
    [fractionDigits |-> Undefined, minimumFractionDigits |-> Count(3),
     maximumFractionDigits |-> Undefined] }
CallMinimums == {Undefined, Int2Num(-1), Int2Num(1), Int2Num(50)}
CallMaximums == {Undefined, Dec2Num(5, 1), Dec2Num(15, 1), Int2Num(2000)}
CallMaxDigits == {Undefined, Count(0), Count(2)}
CallOptions ==
  { [fractionDigits |-> f.fractionDigits,
     minimumFractionDigits |-> f.minimumFractionDigits,
     maximumFractionDigits |-> f.maximumFractionDigits,
     minimumValue |-> lo, maximumValue |-> hi,
     allowNegative |-> an, maxDigits |-> md, isNegative |-> neg,
     mask |-> "currency", validate |-> "none"] :
    f \in CallFractionOptions, lo \in CallMinimums, hi \in CallMaximums,
    an \in BOOLEAN, md \in CallMaxDigits, neg \in BOOLEAN }
\* the values a session is given: those, and Infinity
SessionValues == SetValues \cup {Infinity}
CallValues == SetValues \cup {Dec2Num(-15, 1), Int2Num(-1234), Dec2Num(5, 1)}
CallDigits ==
  { <<>>, <<"0">>, <<"5">>, <<"0", "5">>, <<"1", "5", "0">>, <<"1", "2", "3", "4">>,
    <<"1", "2", "3", "4", "5", "0">>, <<"$", "1", ",", "2", "a">>, <<"-", ".">> }

\* ---------------------------------------------------------------- state
VARIABLES
  cfg,          \* the options of the hook (fixed for the session)
  value,        \* useState: number | null
  rawDigits,    \* useState: string
  text,         \* useState: string
  isNegative,   \* useState: boolean
  error,        \* useState: string | null
  valueRef,     \* useRef, synced by the effect after each render
  negativeRef,  \* useRef, synced by the effect after each render
  phase,        \* "mount": first render done, effects pending; "pending": state
                \* written, render and effects pending; "idle": effects flushed
  lastOp,       \* the event being processed: "init", "change", "set", "prop", "reconfigure" or
                \* "none"
  lastText,     \* the argument of the handleChangeText being processed
  lastSet,      \* the argument of the setValue being processed / the value prop
  call,         \* a direct call of an exported utility: its arguments and result
  errorProp,    \* the error prop of CurrencyInput (fixed for the session)
  reported,     \* the last argument of onValidationError
  changeValueArg,     \* the last argument of onChangeValue
  changeValueCalled,  \* whether the effects of the last commit called onChangeValue
  masked        \* a MaskedInput with its useMaskedInput state and its owner

\* no utility is being called
\* no MaskedInput is mounted
NoMasked == [phase |-> "unmounted"]

NoCall ==
  [fn |-> "none", options |-> <<>>, v |-> Null, digits |-> <<>>, hit |-> FALSE,
   done |-> FALSE, out |-> Null]

vars == <<cfg, value, rawDigits, text, isNegative, error, valueRef, negativeRef,
          phase, lastOp, lastText, lastSet, call, errorProp, reported,
          changeValueArg, changeValueCalled, masked>>

Current ==
  [value |-> value, rawDigits |-> rawDigits, text |-> text, isNegative |-> isNegative,
   error |-> error, valueRef |-> valueRef, negativeRef |-> negativeRef]

\* a batch of setState calls: the five pieces of state are replaced
Write(next) ==
  /\ value' = next.value
  /\ rawDigits' = next.rawDigits
  /\ text' = next.text
  /\ isNegative' = next.isNegative
  /\ error' = next.error

\* useState initialisers of the first render
InitialState(valueProp, options) ==
  LET maxFractionDigits == resolveFractionDigits(options).maxFractionDigits
      initial == normaliseValue(valueProp, options, maxFractionDigits)
      initialFormatted == formatRawDigits(initial.digits, options, options.mask,
                                          initial.isNegative)
  IN [value |-> initial.value, rawDigits |-> initialFormatted.rawValue,
      text |-> initialFormatted.text, isNegative |-> initial.isNegative,
      error |-> buildError(initial.value, initial.isNegative, initial.hitMaxDigits,
                           options)]

\* onChangeValue has not been called yet
NeverCalled == [k |-> "uncalled", n |-> 0, nz |-> FALSE]

\* mutant: the effect runs after every commit
DepsChanged_always(previous, next) == TRUE

\* an effect re-runs when a dependency differs (Object.is) from its value at
\* the previous commit
DepsChanged(previous, next) == previous # next

\* the first render: state from the initialisers, refs from the state
Init ==
  \E c \in Configs, v \in SessionValues :
    \E s \in {InitialState(v, c)} :
       /\ cfg = c
       /\ value = s.value
       /\ rawDigits = s.rawDigits
       /\ text = s.text
       /\ isNegative = s.isNegative
       /\ error = s.error
       /\ valueRef = s.value
       /\ negativeRef = s.isNegative
       /\ phase = "mount"
       /\ lastOp = "init"
       /\ lastText = <<>>
       /\ lastSet = v
       /\ call = NoCall
       /\ masked = NoMasked
       /\ errorProp \in ErrorPropsFor(c)
       /\ reported = Unreported
       /\ changeValueArg = NeverCalled
       /\ changeValueCalled = FALSE

\* the mount effects, in declaration order: the refs are synced (they already hold
\* the initial state), the value-prop effect calls setValue(valueProp) unless the
\* prop equals valueRef.current, and the re-normalise effect calls
\* setValue(valueRef.current); the writes are batched, so the last call wins.
\* CurrencyInput's own effects follow: onChangeValue receives the value and
\* onValidationError the effective error of the render just committed.
MountEffects ==
  /\ phase = "mount"
  /\ LET maxFractionDigits == resolveFractionDigits(cfg).maxFractionDigits
         afterProp == IF areValuesEqual(lastSet, valueRef, maxFractionDigits)
                      THEN Current ELSE setValue(lastSet, cfg)
         afterRenormalise == setValue(valueRef, cfg)
     IN Write(afterRenormalise)
  /\ phase' = "pending"
  /\ reported' = effectiveError(errorProp, error)
  /\ changeValueArg' = value
  /\ changeValueCalled' = TRUE
  /\ UNCHANGED <<cfg, valueRef, negativeRef, lastOp, lastText, lastSet, call, masked,
                 errorProp>>

\* the render that follows a state write, and the effects after it: the refs
\* are synced, onChangeValue receives the value when it differs from the value
\* of the previous commit (which valueRef still holds), and onValidationError
\* receives the effective error (the effect re-runs when it changed; the last
\* argument is the same either way)
Render ==
  /\ phase = "pending"
  /\ valueRef' = value
  /\ negativeRef' = isNegative
  /\ phase' = "idle"
  /\ lastOp' = "none"
  /\ lastText' = <<>>
  /\ lastSet' = Null
  /\ reported' = effectiveError(errorProp, error)
  /\ changeValueCalled' = DepsChanged(valueRef, value)
  /\ changeValueArg' = IF DepsChanged(valueRef, value) THEN value ELSE changeValueArg
  /\ UNCHANGED <<cfg, value, rawDigits, text, isNegative, error, call, masked, errorProp>>

\* the user edits the field: onChangeText -> handleChangeText(t)
HandleChangeText(t) ==
  /\ phase = "idle"
  /\ Write(handleChangeText(Current, t, cfg))
  /\ phase' = "pending"
  /\ lastOp' = "change"
  /\ lastText' = t
  /\ lastSet' = Null
  /\ UNCHANGED <<cfg, valueRef, negativeRef, call, masked, errorProp, reported,
                 changeValueArg, changeValueCalled>>

\* mutant: the returned setValue skips a value equal to the current one
SetValue_skipsEcho(v) ==
  /\ phase = "idle"
  /\ Write(IF areValuesEqual(v, valueRef, resolveFractionDigits(cfg).maxFractionDigits)
           THEN Current ELSE setValue(v, cfg))
  /\ phase' = "pending"
  /\ lastOp' = "set"
  /\ lastText' = <<>>
  /\ lastSet' = v
  /\ UNCHANGED <<cfg, valueRef, negativeRef, call, masked, errorProp, reported,
                 changeValueArg, changeValueCalled>>

\* the owner calls the returned setValue(v)
SetValue(v) ==
  /\ phase = "idle"
  /\ Write(setValue(v, cfg))
  /\ phase' = "pending"
  /\ lastOp' = "set"
  /\ lastText' = <<>>
  /\ lastSet' = v
  /\ UNCHANGED <<cfg, valueRef, negativeRef, call, masked, errorProp, reported,
                 changeValueArg, changeValueCalled>>

\* mutant: the value-prop effect calls setValue without comparing
ValueProp_alwaysSets(v) ==
  /\ phase = "idle"
  /\ Write(setValue(v, cfg))
  /\ phase' = "pending"
  /\ lastOp' = "prop"
  /\ lastText' = <<>>
  /\ lastSet' = v
  /\ UNCHANGED <<cfg, valueRef, negativeRef, call, masked, errorProp, reported,
                 changeValueArg, changeValueCalled>>

\* the owner re-renders with a changed value prop v and the value-prop effect
\* runs: nothing when v equals valueRef.current at the fraction scale, else
\* setValue(v).  The previous prop is not kept in the state: a render whose
\* prop did not change runs no effect and is a stuttering step, and the state
\* this action leaves for such a v is the one left by changing the prop away
\* and back.
ValueProp(v) ==
  /\ phase = "idle"
  /\ Write(IF areValuesEqual(v, valueRef, resolveFractionDigits(cfg).maxFractionDigits)
           THEN Current ELSE setValue(v, cfg))
  /\ phase' = "pending"
  /\ lastOp' = "prop"
  /\ lastText' = <<>>
  /\ lastSet' = v
  /\ UNCHANGED <<cfg, valueRef, negativeRef, call, masked, errorProp, reported,
                 changeValueArg, changeValueCalled>>

\* whether two configurations differ in one group of options; the groups are
\* those in which the hook's dependency lists name them
B2N(b) == IF b THEN 1 ELSE 0
ChangedOptions(c, d) ==
  B2N(<<c.fractionDigits, c.minimumFractionDigits, c.maximumFractionDigits>>
        # <<d.fractionDigits, d.minimumFractionDigits, d.maximumFractionDigits>>)
  + B2N(<<c.minimumValue, c.maximumValue>> # <<d.minimumValue, d.maximumValue>>)
  + B2N(c.allowNegative # d.allowNegative)
  + B2N(c.maxDigits # d.maxDigits)
  + B2N(c.mask # d.mask)
  + B2N(c.validate # d.validate)

\* the configurations the owner changes a session to in one render
ReconfigurationsOf == [c \in Configs |-> {d \in Configs : ChangedOptions(c, d) = 1}]
Reconfigurations(c) == ReconfigurationsOf[c]

\* mutant: the changed options take effect without the re-normalise effect
Reconfigure_keepsState(c) ==
  /\ phase = "idle"
  /\ errorProp \in ErrorPropsFor(c)
  /\ cfg' = c
  /\ Write(Current)
  /\ phase' = "pending"
  /\ lastOp' = "reconfigure"
  /\ lastText' = <<>>
  /\ lastSet' = valueRef
  /\ UNCHANGED <<valueRef, negativeRef, call, masked, errorProp, reported,
                 changeValueArg, changeValueCalled>>

\* the owner re-renders with a changed option or mask: parsingOptions,
\* applyFormattedState and setValue get new identities, so after that render
\* the value-prop effect runs (it calls setValue(valueProp) unless the prop
\* equals valueRef.current) and then the re-normalise effect calls
\* setValue(valueRef.current) under the new options; the writes are batched
\* and the last call wins.
Reconfigure(c) ==
  /\ phase = "idle"
  /\ errorProp \in ErrorPropsFor(c)
  /\ cfg' = c
  /\ Write(setValue(valueRef, c))
  /\ phase' = "pending"
  /\ lastOp' = "reconfigure"
  /\ lastText' = <<>>
  /\ lastSet' = valueRef
  /\ UNCHANGED <<valueRef, negativeRef, call, masked, errorProp, reported,
                 changeValueArg, changeValueCalled>>

Next ==
  \/ MountEffects
  \/ Render
  \/ \E t \in Texts : HandleChangeText(t)
  \/ \E v \in SessionValues : SetValue(v)
  \/ \E v \in SessionValues : ValueProp(v)
  \/ \E c \in Reconfigurations(cfg) : Reconfigure(c)

Spec == Init /\ [][Next]_vars

\* ------------------------------------------- direct calls of the utilities
\* The exported functions and the hook's pure helpers called on their own, with
\* arguments drawn from the Call* sets; no session is mounted.
Unmounted ==
  /\ cfg = <<>>
  /\ value = Null
  /\ rawDigits = <<>>
  /\ text = <<>>
  /\ isNegative = FALSE
  /\ error = ErrNull
  /\ valueRef = Null
  /\ negativeRef = FALSE
  /\ phase = "unmounted"
  /\ lastOp = "none"
  /\ lastText = <<>>
  /\ lastSet = Null
  /\ errorProp = PropUndefined
  /\ reported = Unreported
  /\ changeValueArg = NeverCalled
  /\ changeValueCalled = FALSE

session == <<cfg, value, rawDigits, text, isNegative, error, valueRef, negativeRef,
             phase, lastOp, lastText, lastSet, errorProp, reported,
             changeValueArg, changeValueCalled>>

CallArgs(fn, options, v, digits) ==
  [fn |-> fn, options |-> options, v |-> v, digits |-> digits, hit |-> FALSE,
   done |-> FALSE, out |-> Null]

\* the arguments buildError is given: a value, the sign and the cap flag, with
\* the bounds, allowNegative, maxDigits and validate of the options.  The cap
\* flag is raised only under a maxDigits that caps (lines 257, 317 and
\* applyMaxDigits); the sign is drawn freely so that the function's own
\* allowNegative test is exercised.
BuildErrorOptions ==
  { [c EXCEPT !.validate = w] :
      c \in {o \in CallOptions :
               /\ o.fractionDigits = Undefined
               /\ o.minimumFractionDigits = Undefined
               /\ o.maximumFractionDigits = Undefined},
      w \in Validators }

\* the options clampIncomingValue reads: allowNegative and the two bounds
ClampOptions ==
  {o \in BuildErrorOptions :
     o.maxDigits = Undefined /\ ~o.isNegative /\ o.validate = "none"}

\* the fraction-digit options resolveFractionDigits is given: each absent or
\* an integer, negative ones and minimum > maximum included
FractionCounts == {Undefined, Count(-1), Count(0), Count(1), Count(3)}
ResolveOptions ==
  { [fractionDigits |-> fd, minimumFractionDigits |-> lo,
     maximumFractionDigits |-> hi,
     minimumValue |-> Undefined, maximumValue |-> Undefined,
     allowNegative |-> FALSE, maxDigits |-> Undefined, isNegative |-> FALSE,
     mask |-> "currency", validate |-> "none"] :
    fd \in FractionCounts, lo \in FractionCounts, hi \in FractionCounts }

\* the arguments applyMaxDigits is given: a digit string, fractionDigits >= 0
\* (carried in options.fractionDigits) and maxDigits absent or >= 0
CapDigits ==
  { <<>>, <<"0">>, <<"5">>, <<"0", "5">>, <<"1", "5", "0">>, <<"1", "2", "3", "4">>,
    <<"1", "2", "3", "4", "5", "0">> }
CapOptions ==
  { [fractionDigits |-> Count(f), minimumFractionDigits |-> Undefined,
     maximumFractionDigits |-> Undefined,
     minimumValue |-> Undefined, maximumValue |-> Undefined,
     allowNegative |-> FALSE, maxDigits |-> md, isNegative |-> FALSE,
     mask |-> "currency", validate |-> "none"] :
    f \in 0..3, md \in {Undefined, Count(0), Count(1), Count(2), Count(4)} }

\* the arguments formatRawDigits is given in mask "none": a digit string, the
\* sign (carried in options.isNegative) and the fraction digits of the options
RawOptions ==
  { [c EXCEPT !.mask = "none"] :
      c \in {o \in CallOptions :
               /\ o.minimumValue = Undefined /\ o.maximumValue = Undefined
               /\ o.maxDigits = Undefined} }

\* the options a formatter is created with, in either mask
FormatterOptions ==
  { [c EXCEPT !.mask = m] :
      c \in {o \in CallOptions : ~o.isNegative}, m \in {"currency", "none"} }

CallInit ==
  /\ Unmounted
  /\ masked = NoMasked
  /\ \/ call \in
           {CallArgs("setValue", o, v, <<>>) :
              o \in {c \in CallOptions : ~c.isNegative}, v \in CallValues}
     \/ call \in
           {[CallArgs("buildError", o, v, <<>>) EXCEPT !.hit = h] :
              o \in BuildErrorOptions, v \in CallValues \ {NaN}, h \in {FALSE}}
     \/ call \in
           {[CallArgs("buildError", o, v, <<>>) EXCEPT !.hit = h] :
              o \in {c \in BuildErrorOptions : Truthy(c.maxDigits)},
              v \in CallValues \ {NaN}, h \in {TRUE}}
     \/ call \in
           {CallArgs("parseCurrencyFromDigits", o, Null, d) :
              o \in CallOptions, d \in CallDigits}
     \/ call \in
           {CallArgs("clampIncomingValue", o, v, <<>>) :
              o \in ClampOptions, v \in CallValues}
     \/ call \in
           {CallArgs("roundTrip", o, v, <<>>) :
              o \in {c \in CallOptions : ~c.isNegative}, v \in CallValues}
     \/ call \in
           {CallArgs("resolveFractionDigits", o, Null, <<>>) : o \in ResolveOptions}
     \/ call \in
           {CallArgs("applyMaxDigits", o, Null, d) : o \in CapOptions, d \in CapDigits}
     \/ call \in
           {CallArgs("formatRawDigits", o, Null, d) : o \in RawOptions, d \in CapDigits}
     \/ call \in
           {CallArgs("formatter", o, v, <<>>) : o \in FormatterOptions, v \in CallValues}

\* setValue(v) of a hook configured with the options
CallSetValue ==
  /\ call.fn = "setValue" /\ ~call.done
  /\ call' = [call EXCEPT !.done = TRUE, !.out = setValue(call.v, call.options)]
  /\ UNCHANGED <<session, masked>>

\* buildError(value, isNegative, hitMaxDigits) of a hook configured with the
\* options
CallBuildError ==
  /\ call.fn = "buildError" /\ ~call.done
  /\ call' = [call EXCEPT !.done = TRUE,
                          !.out = buildError(call.v, call.options.isNegative,
                                             call.hit, call.options)]
  /\ UNCHANGED <<session, masked>>

\* parseCurrencyFromDigits(digits, options)
CallParse ==
  /\ call.fn = "parseCurrencyFromDigits" /\ ~call.done
  /\ call' = [call EXCEPT !.done = TRUE,
                          !.out = parseCurrencyFromDigits(call.digits, call.options)]
  /\ UNCHANGED <<session, masked>>

\* clampIncomingValue(incoming, options)
CallClamp ==
  /\ call.fn = "clampIncomingValue" /\ ~call.done
  /\ call' = [call EXCEPT !.done = TRUE,
                          !.out = clampIncomingValue(call.v, call.options)]
  /\ UNCHANGED <<session, masked>>

\* digitsFromValue(v, f) followed by parseCurrencyFromDigits of its digits with
\* its sign and fractionDigits: f, f being the fraction digits of the options
CallRoundTrip ==
  /\ call.fn = "roundTrip" /\ ~call.done
  /\ \E f \in {resolveFractionDigits(call.options).maxFractionDigits} :
       \E dv \in {digitsFromValue(call.v, f)} :
         call' = [call EXCEPT
                    !.done = TRUE,
                    !.digits = dv.digits,
                    !.out = parseCurrencyFromDigits(
                              dv.digits,
                              [call.options EXCEPT !.isNegative = dv.isNegative,
                                                   !.fractionDigits = Num(f)])]
  /\ UNCHANGED <<session, masked>>

\* resolveFractionDigits(options)
CallResolve ==
  /\ call.fn = "resolveFractionDigits" /\ ~call.done
  /\ call' = [call EXCEPT !.done = TRUE,
                          !.out = resolveFractionDigits(call.options)]
  /\ UNCHANGED <<session, masked>>

\* applyMaxDigits(digits, fractionDigits, maxDigits)
CallApplyMaxDigits ==
  /\ call.fn = "applyMaxDigits" /\ ~call.done
  /\ call' = [call EXCEPT !.done = TRUE,
                          !.out = applyMaxDigits(call.digits,
                                                 call.options.fractionDigits.n,
                                                 call.options.maxDigits)]
  /\ UNCHANGED <<session, masked>>

\* formatRawDigits(digits, options, mask, isNegative)
CallFormatRawDigits ==
  /\ call.fn = "formatRawDigits" /\ ~call.done
  /\ call' = [call EXCEPT !.done = TRUE,
                          !.out = formatRawDigits(call.digits, call.options,
                                                  call.options.mask,
                                                  call.options.isNegative)]
  /\ UNCHANGED <<session, masked>>

\* format(v), then parse of the text it produced
CallFormatter ==
  /\ call.fn = "formatter" /\ ~call.done
  /\ \E formatted \in {format(call.v, call.options)} :
       call' = [call EXCEPT
                  !.done = TRUE,
                  !.digits = formatted.text,
                  !.out = [formatted |-> formatted,
                           parsed |-> parse(formatted.text, call.options)]]
  /\ UNCHANGED <<session, masked>>

CallNext ==
  \/ CallSetValue
  \/ CallBuildError
  \/ CallParse
  \/ CallClamp
  \/ CallRoundTrip
  \/ CallResolve
  \/ CallApplyMaxDigits
  \/ CallFormatRawDigits
  \/ CallFormatter

CallSpec == CallInit /\ [][CallNext]_vars

\* ------------------------------------------- two text changes in one batch
\* a second onChangeText handled before the re-render that follows the first:
\* the state written by the first call is in place, the refs still hold the
\* values of the last commit (they are synced by an effect, after the render)
\* the texts of the second change: over the cap, within it, empty
BatchTexts == {<<"1", "1", "1">>, <<"0", "0", "0">>, <<"1">>, <<>>}

BatchedChangeText(t) ==
  /\ phase = "pending"
  /\ lastOp = "change"
  /\ Write(handleChangeText(Current, t, cfg))
  /\ lastOp' = "batched"
  /\ lastText' = t
  /\ UNCHANGED <<cfg, valueRef, negativeRef, phase, lastSet, call, masked, errorProp,
                 reported, changeValueArg, changeValueCalled>>

BatchNext ==
  \/ MountEffects
  \/ Render
  \/ \E t \in Texts : HandleChangeText(t)
  \/ \E t \in BatchTexts : BatchedChangeText(t)

BatchSpec == Init /\ [][BatchNext]_vars

\* ------------------------- src/core/useMaskedInput.ts and MaskedInput.tsx
\* A MaskedInput over a currency formatter, with an owner that stores every
\* argument of onChangeValue in the state it passes as the value prop.  The
\* formatter and the callbacks keep their identity.

\* a !== b
StrictlyDiffers(a, b) ==
  IF a.k = "nan" \/ b.k = "nan" THEN TRUE
  ELSE IF IsNumber(a) /\ IsNumber(b) THEN a.n # b.n
  ELSE a # b

\* the options of the formatters, the value props and the texts of the
\* MaskedInput
MaskedFormatters ==
  { [fractionDigits |-> fd, minimumFractionDigits |-> Undefined,
     maximumFractionDigits |-> Undefined,
     minimumValue |-> Undefined, maximumValue |-> Undefined,
     allowNegative |-> an, maxDigits |-> md, isNegative |-> FALSE,
     mask |-> "currency", validate |-> vd] :
    fd \in {Undefined, Count(0)}, an \in BOOLEAN, md \in MaxDigitsOptions,
    vd \in Validators }
MaskedValues == {Null, Int2Num(0), Int2Num(1), Int2Num(11), Dec2Num(11, 2)}
MaskedTexts ==
  { <<>>, <<"1">>, <<"1", "1">>, <<"1", "1", "1">>, <<"1", ".", "1">>,
    <<"-", "1">>, <<"0">>, <<"a">> }

\* the values a formatter is asked to format: the value props and the values
\* parse returns
FormattedValues ==
  MaskedValues \cup {parse(t, o).value : t \in MaskedTexts, o \in MaskedFormatters}

\* createCurrencyFormatter(options): the object holding format and parse, each
\* over the arguments the MaskedInput calls it with
createCurrencyFormatter(options) ==
  [options |-> options,
   format |-> [v \in FormattedValues |-> format(v, options)],
   parse |-> [t \in MaskedTexts |-> parse(t, options)]]

\* the state of useMaskedInput
HookState(m) ==
  [value |-> m.value, text |-> m.text, rawValue |-> m.rawValue, error |-> m.error]

\* the useState initialisers of useMaskedInput
maskedInitial(initialValue, formatter) ==
  [value |-> initialValue, text |-> formatter.format[initialValue].text,
   rawValue |-> formatter.format[initialValue].rawValue, error |-> ErrNull]

\* the effect of useMaskedInput on [value, formatter]: the text and the raw
\* value are written from format(value) of the render
formatEffect(h, rendered, formatter) ==
  [h EXCEPT !.text = formatter.format[rendered].text,
            !.rawValue = formatter.format[rendered].rawValue]

\* handleChangeText of useMaskedInput
maskedHandleChangeText(h, inputText, formatter) ==
  [value |-> formatter.parse[inputText].value,
   rawValue |-> formatter.parse[inputText].rawValue,
   error |-> IF formatter.parse[inputText].error = ErrUndefined
             THEN ErrNull ELSE formatter.parse[inputText].error,
   text |-> formatter.format[formatter.parse[inputText].value].text]

\* setValue of useMaskedInput
maskedSetValue(h, next, formatter) ==
  [value |-> next, text |-> formatter.format[next].text,
   rawValue |-> formatter.format[next].rawValue, error |-> ErrNull]

\* the dependencies of the effects of MaskedInput, as of a commit
Deps(m) == [value |-> m.value, valueProp |-> m.valueProp, error |-> m.error]

\* the first render of a MaskedInput given the value prop v
MaskedMount(formatter, v) ==
  LET h == maskedInitial(v, formatter)
  IN [phase |-> "mount", formatter |-> formatter, valueProp |-> v,
      value |-> h.value, text |-> h.text, rawValue |-> h.rawValue, error |-> h.error,
      committed |-> [value |-> Null, valueProp |-> Null, error |-> ErrNull],
      changeValueArg |-> NeverCalled, validationErrorArg |-> Unreported,
      lastOp |-> "init", before |-> v, lastParsed |-> [value |-> Null, error |-> ErrNull]]

MaskedInit ==
  /\ Unmounted
  /\ call = NoCall
  /\ masked \in {MaskedMount(createCurrencyFormatter(o), v) :
                   o \in MaskedFormatters, v \in MaskedValues}

\* a commit and its effects, in declaration order: the format effect of the
\* hook (on value), the sync effect (on valueProp and value) which calls
\* setValue(valueProp) when valueProp !== value, the onChangeValue effect (on
\* value) whose argument the owner stores as the next value prop, and the
\* onValidationError effect (on error).  Every effect reads the state of the
\* render; the writes are batched, a later write of a piece of state replacing
\* an earlier one.  Another render is scheduled when a piece of state changed.
MaskedCommit ==
  /\ masked.phase \in {"mount", "pending"}
  /\ LET mount == masked.phase = "mount"
         valueChanged == mount \/ DepsChanged(masked.committed.value, masked.value)
         propChanged == mount \/ DepsChanged(masked.committed.valueProp, masked.valueProp)
         errorChanged == mount \/ DepsChanged(masked.committed.error, masked.error)
         h0 == HookState(masked)
         h1 == IF valueChanged THEN formatEffect(h0, masked.value, masked.formatter)
               ELSE h0
         h2 == IF (valueChanged \/ propChanged)
                  /\ StrictlyDiffers(masked.valueProp, masked.value)
               THEN maskedSetValue(h1, masked.valueProp, masked.formatter)
               ELSE h1
         nextProp == IF valueChanged THEN masked.value ELSE masked.valueProp
     IN \E h \in {h2} :
          masked' = [masked EXCEPT
                       !.value = h.value, !.text = h.text,
                       !.rawValue = h.rawValue, !.error = h.error,
                       !.valueProp = nextProp,
                       !.committed = Deps(masked),
                       !.changeValueArg =
                          IF valueChanged THEN masked.value ELSE @,
                       !.validationErrorArg =
                          IF errorChanged THEN masked.error ELSE @,
                       !.phase = IF h # h0 \/ nextProp # masked.valueProp
                                 THEN "pending" ELSE "idle"]
  /\ UNCHANGED <<session, call>>

\* the user edits the field: onChangeText -> handleChangeText(t)
MaskedChangeText(t) ==
  /\ masked.phase = "idle"
  /\ \E h \in {maskedHandleChangeText(HookState(masked), t, masked.formatter)} :
       masked' = [masked EXCEPT
                    !.value = h.value, !.text = h.text,
                    !.rawValue = h.rawValue, !.error = h.error,
                    !.phase = "pending",
                    !.lastOp = "change", !.before = masked.value,
                    !.lastParsed = [value |-> h.value, error |-> h.error]]
  /\ UNCHANGED <<session, call>>

\* the owner sets its state, and with it the value prop, to v
MaskedValueProp(v) ==
  /\ masked.phase = "idle"
  /\ masked' = [masked EXCEPT !.valueProp = v, !.phase = "pending",
                              !.lastOp = "prop", !.before = masked.value]
  /\ UNCHANGED <<session, call>>

MaskedNext ==
  \/ MaskedCommit
  \/ \E t \in MaskedTexts : MaskedChangeText(t)
  \/ \E v \in MaskedValues : MaskedValueProp(v)

MaskedSpec == MaskedInit /\ [][MaskedNext]_vars

\* renders and effects that are scheduled do run
MaskedLive == MaskedSpec /\ WF_vars(MaskedCommit)

\* ----------------------------------------------------- claims: vocabulary
\* The typed text as the claims read it, computed from the text alone.
MaxFractionDigitsInForce == resolveFractionDigits(cfg).maxFractionDigits
\* the separator is a separator in mask "none" and, in currency mode, when
\* fraction digits are allowed; elsewhere it is a foreign character
SeparatorCounts == cfg.mask = "none" \/ MaxFractionDigitsInForce > 0
Occurrences(t, c) == Cardinality({i \in 1..Len(t) : t[i] = c})
TypedUnsigned(t) ==
  SelectSeq(t, LAMBDA c : IsDigit(c) \/ (SeparatorCounts /\ c = DecimalSeparator))
TypedInteger(t) == SplitHead(TypedUnsigned(t))
TypedFraction(t) == SplitRest(TypedUnsigned(t))
\* the fraction digits that count: all of them in mask "none", the first
\* maxFractionDigits in currency mode
TypedKeptFraction(t) ==
  IF cfg.mask = "none" THEN TypedFraction(t)
  ELSE SubSeq(TypedFraction(t), 1, Min(Len(TypedFraction(t)), MaxFractionDigitsInForce))
TypedDigits(t) == TypedInteger(t) \o TypedKeptFraction(t)
\* maxDigits is set and the integer part typed has more digits than it allows
CapExceeded(t) == IsSet(cfg.maxDigits) /\ Len(TypedInteger(t)) > cfg.maxDigits.n
\* the text change being processed, and whether it was accepted with digits
Changing == phase = "pending" /\ lastOp = "change"
AcceptedWithDigits == Changing /\ ~CapExceeded(lastText) /\ TypedDigits(lastText) # <<>>
\* the message the custom validator gives for v, null when it gives none
CustomErrorFor(v) ==
  IF Validate(cfg.validate, v).k = "str" /\ Validate(cfg.validate, v).s # ""
  THEN Err(Validate(cfg.validate, v).s, 0) ELSE ErrNull

\* ------------------------------------------------------------------- C1
\* C1 as stated: after handleChangeText("") the session holds value = null,
\* text = "", rawDigits = "" and error = null, whatever the configuration.
C1_EmptyClearsAll ==
  (Changing /\ lastText = <<>>) =>
    (value = Null /\ text = <<>> /\ rawDigits = <<>> /\ error = ErrNull)

\* C1 amended: after handleChangeText("") the session holds value = null,
\* text = "", rawDigits = "", and error is the custom validator's message for
\* null when it returns one, null otherwise.
C1_EmptyClears ==
  (Changing /\ lastText = <<>>) =>
    (value = Null /\ text = <<>> /\ rawDigits = <<>> /\ ~isNegative
     /\ error = CustomErrorFor(Null))

\* a populated session whose error was the cap message is cleared by ""
C1_Witness ==
  /\ Changing /\ lastText = <<>>
  /\ valueRef.k = "num" /\ value = Null /\ text = <<>>
  /\ Truthy(cfg.maxDigits) /\ cfg.mask = "currency"

C3_CapMessage ==
  (Changing /\ CapExceeded(lastText) /\ CustomErrorFor(value) = ErrNull)
    => error = CapMessage(cfg.maxDigits)

\* from the empty state with maxDigits = 2, typing "111" leaves value = null
\* and the cap message
C3_Witness ==
  /\ Changing /\ lastText = <<"1", "1", "1">> /\ cfg.maxDigits = Count(2)
  /\ valueRef = Null /\ value = Null /\ error = CapMessage(cfg.maxDigits)

\* ------------------------------------------- claims: reading the display
\* the typed text after cleaning, signs kept
TypedCleaned(t) ==
  SelectSeq(t, LAMBDA c : IsDigit(c) \/ c = "-"
                          \/ (SeparatorCounts /\ c = DecimalSeparator))
\* the number typed, before sign and clamping: integer digits plus kept fraction
TypedMagnitude(t) ==
  NumberOf(TypedInteger(t)) * One
  + NumberOf(TypedKeptFraction(t)) * Pow10(Scale - Len(TypedKeptFraction(t)))
TypedNumber(t) ==
  IF cfg.allowNegative /\ Occurrences(t, "-") % 2 = 1
  THEN -TypedMagnitude(t) ELSE TypedMagnitude(t)
Clamped(n) ==
  ClampSteps(Num(n), cfg.allowNegative, cfg.minimumValue, cfg.maximumValue).n
InBounds(n) ==
  /\ IsSet(cfg.minimumValue) => n >= cfg.minimumValue.n
  /\ IsSet(cfg.maximumValue) => n <= cfg.maximumValue.n
\* the number a displayed text denotes: symbol and grouping dropped, '-' is the sign
ShownUnsigned(txt) == SelectSeq(txt, LAMBDA c : IsDigit(c) \/ c = DecimalSeparator)
ShownMagnitude(txt) ==
  NumberOf(SplitHead(ShownUnsigned(txt))) * One
  + NumberOf(SplitRest(ShownUnsigned(txt)))
    * Pow10(Scale - Len(SplitRest(ShownUnsigned(txt))))
ShownNumber(txt) ==
  IF Occurrences(txt, "-") > 0 THEN -ShownMagnitude(txt) ELSE ShownMagnitude(txt)
ShownFractionDigits(txt) == Len(SplitRest(ShownUnsigned(txt)))

\* ------------------------------------------------------------------- C4
\* C4: in every reachable state the value is null or lies within
\* [minimumValue, maximumValue] (each bound optional, minimumValue <= maximumValue).
C4_BoundsInvariant == IsNumber(value) => InBounds(value.n)

\* ------------------------------------------------------------------- C5
\* C5: in every reachable state, in both masks, the text is empty exactly when
\* the value is null, and otherwise the signed number the text denotes equals
\* the value.
C5_TextValueInSync ==
  /\ text = <<>> <=> value = Null
  /\ IsNumber(value) => ShownNumber(text) = value.n

\* ------------------------------------------------------------------- C6
\* C6 as stated: in every reachable state value is null when rawDigits is
\* empty, and otherwise value = clamp(+-Number(rawDigits) / 10^maxFractionDigits).
C6_DigitsScaledAlways ==
  IF rawDigits = <<>> THEN value = Null
  ELSE /\ IsNumber(value)
       /\ value.n = Clamped((IF isNegative THEN -1 ELSE 1) * NumberOf(rawDigits)
                            * Pow10(Scale - MaxFractionDigitsInForce))

\* C6 amended: rawDigits holds no digit exactly when value is null (it is
\* empty then, or the letters left by a set of Infinity); after the initial
\* render, the mount effects or a programmatic set that left digits, value =
\* clamp(+-Number(rawDigits) / 10^maxFractionDigits); after an accepted text
\* change with digits rawDigits is the digits as typed (integer digits, then the
\* kept fraction digits), not scaled.
C6_DigitsValue ==
  /\ SelectSeq(rawDigits, IsDigit) = <<>> <=> value = Null
  /\ (phase # "idle" /\ lastOp \in {"init", "set"}
      /\ SelectSeq(rawDigits, IsDigit) # <<>>) =>
       value.n = Clamped((IF isNegative THEN -1 ELSE 1) * NumberOf(rawDigits)
                         * Pow10(Scale - MaxFractionDigitsInForce))
  /\ AcceptedWithDigits => rawDigits = TypedDigits(lastText)

\* typing "1" with two fraction digits leaves rawDigits "1" for the value 1,
\* and a set truncated by maxDigits keeps value and rawDigits in step
C6_Witness ==
  \/ /\ AcceptedWithDigits /\ lastText = <<"1">> /\ MaxFractionDigitsInForce = 2
     /\ rawDigits = <<"1">> /\ value = Int2Num(1)
  \/ /\ phase = "pending" /\ lastOp = "set" /\ Truthy(cfg.maxDigits)
     /\ error = CapMessage(cfg.maxDigits) /\ IsNumber(value)

\* ------------------------------------------------------------------- C7
\* C7: with allowNegative, after an accepted text with at least one digit the
\* sign is negative iff the text holds an odd number of '-', wherever they are;
\* the '-' add nothing to the digits, and value is the clamped signed number.
C7_SignParity ==
  (AcceptedWithDigits /\ cfg.allowNegative) =>
    /\ isNegative = (Occurrences(lastText, "-") % 2 = 1)
    /\ rawDigits = TypedDigits(lastText)
    /\ IsNumber(value)
    /\ value.n = Clamped(TypedNumber(lastText))

\* "-1" made the session negative, "-1-" toggles it back to 1
C7_Witness ==
  /\ Changing /\ lastText = <<"-", "1", "-">>
  /\ negativeRef /\ valueRef = Int2Num(-1)
  /\ ~isNegative /\ value = Int2Num(1)

\* ------------------------------------------------------------------- C8
\* C8: with allowNegative = false, handleChangeText(t) leaves the same value,
\* text, rawDigits and error as handleChangeText of t without its '-' characters.
C8_MinusIgnored ==
  [][(phase' = "pending" /\ lastOp' = "change" /\ ~cfg.allowNegative) =>
       LET r == handleChangeText(Current, SelectSeq(lastText', LAMBDA c : c # "-"), cfg)
       IN value' = r.value /\ text' = r.text /\ rawDigits' = r.rawDigits
          /\ error' = r.error]_vars

\* ------------------------------------------------------------------- C9
\* C9: in currency mode with maxFractionDigits > 0 a text that is the decimal
\* separator alone yields value = 0, rawDigits = "0" and text = "$0." from any
\* prior state.
C9_LoneSeparator ==
  (Changing /\ cfg.mask = "currency" /\ MaxFractionDigitsInForce > 0
   /\ lastText = <<DecimalSeparator>>) =>
    (value = Num(0) /\ rawDigits = <<"0">> /\ text = <<"$", "0", ".">>)

\* a populated, bounded and capped session shows "$0." after "."
C9_Witness ==
  /\ Changing /\ lastText = <<DecimalSeparator>> /\ cfg.mask = "currency"
  /\ IsNumber(valueRef) /\ valueRef.n # 0
  /\ Truthy(cfg.maxDigits) /\ IsSet(cfg.minimumValue)
  /\ text = <<"$", "0", ".">>

\* ------------------------------------------------------------------ C10
\* an accepted text in currency mode, and its min(k, maxFractionDigits)
NaturallyTyped == AcceptedWithDigits /\ cfg.mask = "currency"
TypedKept == Min(Len(TypedFraction(lastText)), MaxFractionDigitsInForce)
\* what C10 says of the value, of the size of the number shown and of the
\* trailing separator
TypedValueShown ==
  NaturallyTyped =>
    /\ IsNumber(value)
    /\ value.n = Clamped(TypedNumber(lastText))
    /\ ShownMagnitude(text)
       = RoundScaled(Abs(value.n), MaxFractionDigitsInForce)
         * Pow10(Scale - MaxFractionDigitsInForce)
    /\ EndsWith(text, DecimalSeparator)
       <=> EndsWith(TypedCleaned(lastText), DecimalSeparator)

\* C10 as stated: the text shows exactly min(k, maxFractionDigits) fraction
\* digits, value is the clamped typed number, and a trailing separator is shown
\* iff the cleaned text ends with one.
C10_ExactFractionDigits ==
  /\ TypedValueShown
  /\ NaturallyTyped => ShownFractionDigits(text) = TypedKept

\* C10 amended: the text renders the clamped value with at least
\* min(k, maxFractionDigits) and at most maxFractionDigits fraction digits, and
\* exactly min(k, maxFractionDigits) when clamping left the typed number as it
\* was; value and trailing separator as stated.
C10_NaturalTyping ==
  /\ TypedValueShown
  /\ NaturallyTyped =>
       /\ ShownFractionDigits(text) >= TypedKept
       /\ ShownFractionDigits(text) <= MaxFractionDigitsInForce
       /\ value.n = TypedNumber(lastText) => ShownFractionDigits(text) = TypedKept

\* "11." shows "$11." for the value 11, and ".11" is cut to one fraction digit
C10_Witness ==
  \/ /\ AcceptedWithDigits /\ lastText = <<"1", "1", ".">>
     /\ text = <<"$", "1", "1", ".">> /\ value = Int2Num(11)
  \/ /\ AcceptedWithDigits /\ lastText = <<".", "1", "1">>
     /\ MaxFractionDigitsInForce = 1 /\ text = <<"$", "0", ".", "1">>

\* ------------------------------------------------------------------ C11
\* the five pieces of state as one tuple
Tuple(r) == <<r.value, r.text, r.rawDigits, r.isNegative, r.error>>

EqualAtScale(a, b) ==
  \/ a = Null /\ b = Null
  \/ /\ IsNumber(a) /\ IsNumber(b)
     /\ RoundScaled(a.n, MaxFractionDigitsInForce)
        = RoundScaled(b.n, MaxFractionDigitsInForce)

\* C12 as stated: an incoming value equal to the current value at scale
\* 10^maxFractionDigits changes nothing, whether it arrives through the value
\* prop or through the returned setValue.
C12_EchoSkippedAlways ==
  [][(phase = "idle" /\ phase' = "pending" /\ lastOp' \in {"prop", "set"}
      /\ EqualAtScale(lastSet', value)) =>
       UNCHANGED <<value, text, rawDigits, isNegative, error>>]_vars

\* C12 amended: a changed value prop equal to the current value at scale
\* 10^maxFractionDigits changes nothing (value, text, rawDigits, sign and error
\* stay, so a partially typed "$1." survives the echo of 1); the returned
\* setValue has no such test and re-normalises.
C12_EchoSkipped ==
  [][(phase = "idle" /\ phase' = "pending" /\ lastOp' = "prop"
      /\ EqualAtScale(lastSet', value)) =>
       UNCHANGED <<value, text, rawDigits, isNegative, error>>]_vars

\* the prop echoes 1 while the text is the partially typed "$1."
C12_Witness ==
  /\ phase = "pending" /\ lastOp = "prop" /\ lastSet = Int2Num(1)
  /\ value = Int2Num(1) /\ text = <<"$", "1", ".">>

\* --------------------------------------------- claims: direct-call vocabulary
CallMaxFraction == resolveFractionDigits(call.options).maxFractionDigits
\* clamp(v) under the call's options, and its digit string at 10^maxFractionDigits
CallClamped ==
  ClampSteps(call.v, call.options.allowNegative, call.options.minimumValue,
             call.options.maximumValue)
CallEncoded == ToDigits(RoundScaled(Abs(CallClamped.n), CallMaxFraction))
CallIntegerDigits == Max(0, Len(CallEncoded) - CallMaxFraction)
\* the last n characters of s
LastDigits(s, n) == SubSeq(s, Len(s) - Min(n, Len(s)) + 1, Len(s))
\* the decode of digits with the sign of clamp(v), clamped again
CallDecoded(digits) ==
  ClampSteps(Num((IF CallClamped.n < 0 /\ call.options.allowNegative THEN -1 ELSE 1)
                 * NumberOf(digits) * Pow10(Scale - CallMaxFraction)),
             call.options.allowNegative, call.options.minimumValue,
             call.options.maximumValue)

\* ------------------------------------------------------------------ C13
\* what C13 says of a setValue(v) whose digit string exceeds the cap
SetTruncated ==
  LET kept == LastDigits(CallEncoded, call.options.maxDigits.n + CallMaxFraction)
  IN /\ call.out.rawDigits = kept
     /\ call.out.value.n = CallDecoded(kept).n
     /\ call.out.error = CapMessage(call.options.maxDigits)

\* C13 as stated: whenever maxDigits is set and encode(clamp(v)) has more than
\* maxDigits integer digits, setValue(v) keeps the last maxDigits +
\* maxFractionDigits digits, decodes and re-clamps them, and reports the cap.
C13_SetTruncatesWhenSet ==
  (call.fn = "setValue" /\ call.done /\ IsNumber(call.v)
   /\ IsSet(call.options.maxDigits)
   /\ CallIntegerDigits > call.options.maxDigits.n) => SetTruncated

\* C13 amended: the same for a maxDigits other than 0; a maxDigits of 0 is
\* treated as no cap.
C13_SetTruncates ==
  (call.fn = "setValue" /\ call.done /\ IsNumber(call.v)
   /\ IsSet(call.options.maxDigits) /\ call.options.maxDigits.n # 0
   /\ CallIntegerDigits > call.options.maxDigits.n) => SetTruncated

\* 1234.5 under a cap of 2 and the bounds [50, 2000]: "3450" is kept and the
\* decoded 34.5 is raised to 50
C13_Witness ==
  /\ call.fn = "setValue" /\ call.done /\ call.v = Dec2Num(12345, 1)
  /\ call.options.maxDigits = Count(2) /\ call.options.minimumValue = Int2Num(50)
  /\ call.out.rawDigits = <<"3", "4", "5", "0">> /\ call.out.value = Int2Num(50)

\* ------------------------------------------------------------------ C14
\* C14 as stated: whenever the custom validator returns a non-null string for
\* the session's value, the empty string included, that string is the
\* session's error.
C14_CustomAlwaysWins ==
  Validate(cfg.validate, value).k = "str"
    => error = Err(Validate(cfg.validate, value).s, 0)

\* C14 amended: whenever the custom validator returns a non-empty string for
\* the session's value, that string is the session's error, whether or not a
\* structural message exists; an empty string is treated like null.
C14_CustomWins ==
  (Validate(cfg.validate, value).k = "str" /\ Validate(cfg.validate, value).s # "")
    => error = Err(Validate(cfg.validate, value).s, 0)

\* setValue(1234.5) under maxDigits = 2 is truncated, which raises the cap
\* message, and the validator's "No cents allowed" is the error
C14_Witness ==
  /\ phase = "pending" /\ lastOp = "set" /\ lastSet = Dec2Num(12345, 1)
  /\ Truthy(cfg.maxDigits) /\ value = Dec2Num(345, 1)
  /\ error = Err("No cents allowed", 0)

\* ------------------------------------------------------------------ C15
\* the custom validator has no message for the value of the call
NoCustomMessage ==
  \/ Validate(call.options.validate, call.v).k = "null"
  \/ Validate(call.options.validate, call.v).s = ""

\* the first applicable structural message in the stated order
StructuralError ==
  IF call.hit /\ IsSet(call.options.maxDigits)
  THEN CapMessage(call.options.maxDigits)
  ELSE IF call.options.isNegative /\ ~call.options.allowNegative
       THEN NegativeMessage
  ELSE IF IsSet(call.options.minimumValue) /\ IsNumber(call.v)
          /\ call.v.n < call.options.minimumValue.n
       THEN MinMessage(call.options.minimumValue)
  ELSE IF IsSet(call.options.maximumValue) /\ IsNumber(call.v)
          /\ call.v.n > call.options.maximumValue.n
       THEN MaxMessage(call.options.maximumValue)
  ELSE ErrNull

BoundMessages ==
  {MinMessage(m) : m \in CallMinimums \ {Undefined}}
    \cup {MaxMessage(m) : m \in CallMaximums \ {Undefined}}

\* C15: with no custom message the error is the first applicable of cap (flag
\* raised, maxDigits set), disallowed sign, below minimum, above maximum, else
\* null; a null value gives no bound message.
C15_Precedence ==
  (call.fn = "buildError" /\ call.done /\ NoCustomMessage)
    => /\ call.out = StructuralError
       /\ (call.v = Null => call.out \notin BoundMessages)

\* every structural message applies at once (cap flag under maxDigits = 2, a
\* sign that is not allowed, 0 below the minimum 1) and the cap message is
\* reported
C15_Witness ==
  /\ call.fn = "buildError" /\ call.done /\ NoCustomMessage
  /\ call.hit /\ call.options.maxDigits = Count(2)
  /\ call.options.isNegative /\ ~call.options.allowNegative
  /\ call.v = Int2Num(0) /\ call.options.minimumValue = Int2Num(1)
  /\ call.out = CapMessage(Count(2))

\* ------------------------------------------------------------------ C16
\* the number the last operation carried: the number typed, or the number set
CarriedNumber ==
  IF lastOp = "change" THEN TypedNumber(lastText) ELSE lastSet.n

\* a text change with digits or a programmatic set of a number has just been
\* applied, without a cap error and without a custom message
CarriedPlainly ==
  /\ phase = "pending"
  /\ \/ AcceptedWithDigits
     \/ lastOp = "set" /\ IsNumber(lastSet)
  /\ error # CapMessage(cfg.maxDigits)
  /\ CustomErrorFor(value) = ErrNull

\* C16: a text change or programmatic set whose number lies below minimumValue
\* leaves the error "Value must be >= {minimumValue}", and one whose number
\* lies above maximumValue leaves "Value must be <= {maximumValue}", when no
\* cap error and no custom message applies.
C16_BoundErrors ==
  /\ (CarriedPlainly /\ IsSet(cfg.minimumValue)
      /\ CarriedNumber < cfg.minimumValue.n)
       => error = MinMessage(cfg.minimumValue)
  /\ (CarriedPlainly /\ IsSet(cfg.maximumValue)
      /\ CarriedNumber > cfg.maximumValue.n)
       => error = MaxMessage(cfg.maximumValue)

\* ------------------------------------------------------------------ C17
\* C17: once a render's effects have run, the effective error (rendered and
\* last passed to onValidationError) is the error prop whenever the prop is a
\* string, whatever the session's internal error, and the internal error when
\* the prop is null or undefined.
C17_ExternalOverride ==
  phase = "idle" =>
    /\ errorProp.k = "str" => reported = Err(errorProp.s, 0)
    /\ errorProp.k \in {"null", "undef"} => reported = error

\* a rejected keystroke has left the cap message as the internal error while
\* the empty-string error prop is what onValidationError received
C17_Witness ==
  /\ phase = "idle" /\ error = CapMessage(cfg.maxDigits)
  /\ errorProp = PropStr("") /\ reported = Err("", 0)

\* ------------------------------------------------------------------ C18
\* the round trip's value is a multiple of 10^-f within the configured bounds
RoundTripInput ==
  /\ call.fn = "roundTrip" /\ call.done /\ IsNumber(call.v)
  /\ call.v.n % Pow10(Scale - CallMaxFraction) = 0
  /\ IsSet(call.options.minimumValue) => call.v.n >= call.options.minimumValue.n
  /\ IsSet(call.options.maximumValue) => call.v.n <= call.options.maximumValue.n

\* the value can be written under the options: its sign is allowed and its
\* integer part has no more digits than a non-zero maxDigits
Representable ==
  /\ call.v.n < 0 => call.options.allowNegative
  /\ (IsSet(call.options.maxDigits) /\ call.options.maxDigits.n # 0)
       => Abs(call.v.n) < Pow10(call.options.maxDigits.n) * One

\* C18 as stated: for every v that is a multiple of 10^-f within the bounds,
\* decoding the digits and sign of encode(v) returns v, whatever maxDigits
\* and allowNegative are.
C18_RoundTripAlways ==
  RoundTripInput => (call.out.k = "num" /\ call.out.n = call.v.n)

\* C18 amended: the round trip returns v when, in addition, v is not negative
\* unless allowNegative, and the integer part of v has at most maxDigits
\* digits when maxDigits is a number other than 0.
C18_RoundTrip ==
  (RoundTripInput /\ Representable)
    => (call.out.k = "num" /\ call.out.n = call.v.n)

\* -1.5 with allowNegative, a cap of 2 and two fraction digits is encoded as
\* "150" with the sign and comes back as -1.5
C18_Witness ==
  /\ RoundTripInput /\ Representable
  /\ call.v = Dec2Num(-15, 1) /\ call.options.maxDigits = Count(2)
  /\ call.digits = <<"1", "5", "0">> /\ call.out.n = call.v.n

\* ------------------------------------------------------------------ C19
\* maximumFractionDigits, else fractionDigits, else 2
StatedMaxFraction ==
  IF IsSet(call.options.maximumFractionDigits)
  THEN call.options.maximumFractionDigits.n
  ELSE IF IsSet(call.options.fractionDigits) THEN call.options.fractionDigits.n
  ELSE 2

\* minimumFractionDigits, else fractionDigits, else 2
StatedMinFraction ==
  IF IsSet(call.options.minimumFractionDigits)
  THEN call.options.minimumFractionDigits.n
  ELSE IF IsSet(call.options.fractionDigits) THEN call.options.fractionDigits.n
  ELSE 2

\* the reference pipeline on the digits of the call: strip, keep the last
\* maxDigits + maxFraction digits when the cap applies and is exceeded, scale,
\* negate when isNegative and allowNegative, raise to the minimum, lower to
\* the maximum
ParseReference(capApplies, maxFraction) ==
  LET stripped == SelectSeq(call.digits, IsDigit)
      kept == IF capApplies
                 /\ Len(stripped) - maxFraction > call.options.maxDigits.n
              THEN LastDigits(stripped, call.options.maxDigits.n + maxFraction)
              ELSE stripped
      magnitude == NumberOf(kept) * Pow10(Scale - maxFraction)
      signed == IF call.options.isNegative /\ call.options.allowNegative
                THEN -magnitude ELSE magnitude
      raised == IF IsSet(call.options.minimumValue)
                   /\ signed < call.options.minimumValue.n
                THEN call.options.minimumValue.n ELSE signed
      lowered == IF IsSet(call.options.maximumValue)
                    /\ raised > call.options.maximumValue.n
                 THEN call.options.maximumValue.n ELSE raised
  IN IF stripped = <<>> THEN call.out = Null
     ELSE call.out.k = "num" /\ call.out.n = lowered

ClampReference ==
  LET positive == IF ~call.options.allowNegative /\ call.v.n < 0
                  THEN (IF IsSet(call.options.minimumValue)
                        THEN call.options.minimumValue.n ELSE 0)
                  ELSE call.v.n
      raised == IF IsSet(call.options.minimumValue)
                   /\ positive < call.options.minimumValue.n
                THEN call.options.minimumValue.n ELSE positive
      lowered == IF IsSet(call.options.maximumValue)
                    /\ raised > call.options.maximumValue.n
                 THEN call.options.maximumValue.n ELSE raised
  IN lowered

\* C20: clampIncomingValue returns null for null and NaN; otherwise the result
\* of the three steps, which is <= maximumValue whenever maximumValue is set
\* and within [minimumValue, maximumValue] whenever minimumValue <= maximumValue.
C20_ClampContract ==
  (call.fn = "clampIncomingValue" /\ call.done) =>
    IF call.v \in {Null, NaN} THEN call.out = Null
    ELSE /\ call.out.k = "num"
         /\ call.out.n = ClampReference
         /\ IsSet(call.options.maximumValue)
              => call.out.n <= call.options.maximumValue.n
         /\ (/\ IsSet(call.options.minimumValue)
             /\ IsSet(call.options.maximumValue)
             /\ call.options.minimumValue.n <= call.options.maximumValue.n)
              => /\ call.options.minimumValue.n <= call.out.n
                 /\ call.out.n <= call.options.maximumValue.n

\* crossed bounds [50, 1.5]: 1 is raised to 50, then lowered to 1.5
C20_Witness ==
  /\ call.fn = "clampIncomingValue" /\ call.done
  /\ call.v = Int2Num(1)
  /\ call.options.minimumValue = Int2Num(50)
  /\ call.options.maximumValue = Dec2Num(15, 1)
  /\ call.out = Dec2Num(15, 1)

C22_FractionResolution ==
  (call.fn = "resolveFractionDigits" /\ call.done) =>
    /\ call.out.minFractionDigits = Max(0, StatedMinFraction)
    /\ call.out.maxFractionDigits = Max(Max(0, StatedMinFraction), StatedMaxFraction)
    /\ 0 <= call.out.minFractionDigits
    /\ call.out.minFractionDigits <= call.out.maxFractionDigits

\* minimumFractionDigits = 3 with maximumFractionDigits = 1: the maximum is
\* raised to 3
C22_Witness ==
  /\ call.fn = "resolveFractionDigits" /\ call.done
  /\ call.options.minimumFractionDigits = Count(3)
  /\ call.options.maximumFractionDigits = Count(1)
  /\ call.out = [minFractionDigits |-> 3, maxFractionDigits |-> 3]

\* ------------------------------------------------------------------ C23
\* the stated result of capping the digits of the call at maxDigits integer
\* digits
Capped ==
  IF Max(0, Len(call.digits) - call.options.fractionDigits.n)
       <= call.options.maxDigits.n
  THEN call.out = [digits |-> call.digits, hitMaxDigits |-> FALSE]
  ELSE call.out = [digits |-> LastDigits(call.digits,
                                         call.options.maxDigits.n
                                           + call.options.fractionDigits.n),
                   hitMaxDigits |-> TRUE]

PassedThrough == call.out = [digits |-> call.digits, hitMaxDigits |-> FALSE]

\* C23 as stated: for every maxDigits that is set, 0 included, applyMaxDigits
\* passes the digits through when max(0, len - fractionDigits) <= maxDigits and
\* otherwise returns the last maxDigits + fractionDigits characters with the
\* flag raised; an unset maxDigits is a passthrough.
C23_CappingWhenSet ==
  (call.fn = "applyMaxDigits" /\ call.done) =>
    IF IsSet(call.options.maxDigits) THEN Capped ELSE PassedThrough

\* C23 amended: the same for every maxDigits >= 1; an unset maxDigits and a
\* maxDigits of 0 are a passthrough.
C23_Capping ==
  (call.fn = "applyMaxDigits" /\ call.done) =>
    IF IsSet(call.options.maxDigits) /\ call.options.maxDigits.n >= 1
    THEN Capped ELSE PassedThrough

\* "123450" with two fraction digits under a cap of 2 keeps "3450"
C23_Witness ==
  /\ call.fn = "applyMaxDigits" /\ call.done
  /\ call.digits = <<"1", "2", "3", "4", "5", "0">>
  /\ call.options.fractionDigits = Count(2) /\ call.options.maxDigits = Count(2)
  /\ call.out = [digits |-> <<"3", "4", "5", "0">>, hitMaxDigits |-> TRUE]

\* ------------------------------------------------------------------ C24
\* C24: after an accepted text change, in both masks, the value, the text and
\* rawDigits carry at most maxFractionDigits fraction digits (none at all
\* when maxFractionDigits = 0).
C24_FractionPrecision ==
  AcceptedWithDigits =>
    /\ value.n % Pow10(Scale - MaxFractionDigitsInForce) = 0
    /\ ShownFractionDigits(text) <= MaxFractionDigitsInForce
    /\ Len(rawDigits) <= Len(TypedInteger(lastText)) + MaxFractionDigitsInForce

\* ------------------------------------------------------------------ C25
\* the integer part of |value| has at most maxDigits digits
WithinMaxDigits == Abs(value.n) < Pow10(cfg.maxDigits.n) * One

\* C25 as stated: when maxDigits is set, in every reachable state, whatever the
\* bounds, the value is null or the integer part of |value| has at most
\* maxDigits digits.
C25_IntegerDigitsCappedAlways ==
  IsSet(cfg.maxDigits) => (value = Null \/ WithinMaxDigits)

\* C25 amended: when maxDigits is set, in every reachable state the value is
\* null, or the integer part of |value| has at most maxDigits digits, or the
\* value is a bound it was clamped to.
C25_IntegerDigitsCapped ==
  IsSet(cfg.maxDigits) =>
    \/ value = Null
    \/ WithinMaxDigits
    \/ IsSet(cfg.minimumValue) /\ value.n = cfg.minimumValue.n
    \/ IsSet(cfg.maximumValue) /\ value.n = cfg.maximumValue.n

\* setValue(1234.5) under maxDigits = 2 leaves 34.5
C25_Witness ==
  /\ phase = "pending" /\ lastOp = "set" /\ lastSet = Dec2Num(12345, 1)
  /\ cfg.maxDigits = Count(2) /\ cfg.minimumValue = Undefined
  /\ value = Dec2Num(345, 1) /\ WithinMaxDigits

\* ------------------------------------------------------------------ C26
\* C26: every text change and every programmatic set (any number, null or
\* NaN) leaves a defined tuple: value is null or a number that is not NaN,
\* and rawDigits consists of ASCII digits only, empty exactly when value is
\* null.
C26_DefinedTuple ==
  (phase = "pending" /\ lastOp \in {"change", "set"}) =>
    /\ value = Null \/ value.k = "num"
    /\ \A i \in 1..Len(rawDigits) : IsDigit(rawDigits[i])
    /\ rawDigits = <<>> <=> value = Null

\* ------------------------------------------------------------------ C27
\* the stated rendering of the digits of the call in mask "none", with the
\* sign shown or not
RawRendering(signShown) ==
  LET padded == Zeros(CallMaxFraction + 1 - Len(call.digits)) \o call.digits
      integerPart == SubSeq(padded, 1, Len(padded) - CallMaxFraction)
      fraction == SubSeq(padded, Len(padded) - CallMaxFraction + 1, Len(padded))
  IN (IF signShown THEN <<"-">> ELSE <<>>)
     \o StripLeadingZeros(integerPart)
     \o (IF CallMaxFraction = 0 THEN <<>> ELSE <<DecimalSeparator>> \o fraction)

\* the result for the digits of the call, whose text is the rendering for
\* non-empty digits and "" for empty ones, and whose rawValue echoes the digits
RawResult(signShown) ==
  /\ call.out.rawValue = call.digits
  /\ call.out.text = IF call.digits = <<>> THEN <<>> ELSE RawRendering(signShown)

\* C27 as stated: formatRawDigits in mask "none" pads, strips the leading
\* zeros of the integer part, joins integer and fraction with the separator
\* and prefixes '-' only when the sign is true and negatives are allowed.
C27_RawRenderingSignAllowed ==
  (call.fn = "formatRawDigits" /\ call.done)
    => RawResult(call.options.isNegative /\ call.options.allowNegative)

\* C27 amended: the same, with '-' prefixed whenever the sign argument is
\* true, whatever allowNegative is.
C27_RawRendering ==
  (call.fn = "formatRawDigits" /\ call.done) => RawResult(call.options.isNegative)

\* "05" with two fraction digits and the sign renders as "-0.05"
C27_Witness ==
  /\ call.fn = "formatRawDigits" /\ call.done
  /\ call.digits = <<"0", "5">> /\ CallMaxFraction = 2
  /\ call.options.isNegative /\ call.options.allowNegative
  /\ call.out = [text |-> <<"-", "0", ".", "0", "5">>, rawValue |-> <<"0", "5">>]

\* ------------------------------------------------------------------ C28

\* a finished format-then-parse of a number that lies within the bounds of
\* the formatter and is a multiple of 10^-maxFractionDigits
FormatterInput ==
  /\ call.fn = "formatter" /\ call.done /\ IsNumber(call.v)
  /\ call.v.n % Pow10(Scale - resolveFractionDigits(call.options).maxFractionDigits) = 0
  /\ call.v.n < 0 => call.options.allowNegative
  /\ IsSet(call.options.minimumValue) => call.v.n >= call.options.minimumValue.n
  /\ IsSet(call.options.maximumValue) => call.v.n <= call.options.maximumValue.n

\* C28: for every formatter (either mask, minimumFractionDigits below
\* maximumFractionDigits included) and every number within its bounds that is
\* a multiple of 10^-maxFractionDigits, parsing the text that format produced
\* gives the number back, and the rawValue that format reported.
C28_FormatterReversible ==
  FormatterInput =>
    /\ IsNumber(call.out.parsed.value)
    /\ call.out.parsed.value.n = call.v.n
    /\ call.out.parsed.rawValue = call.out.formatted.rawValue

\* ------------------------------------------------------------------ C29

\* the step that runs the effects of a commit
RenderStep == phase = "pending" /\ phase' = "idle"

\* C29: onChangeValue is called once with the value of the first render when
\* the mount effects run; the effects of a later commit call it, with the
\* session's value, exactly when the value differs from the value of the
\* commit before, so a text change that leaves the value as it was (a
\* keystroke rejected by the digit cap, a trailing separator) does not call
\* it; and whenever the effects have run and no write is pending, the last
\* argument it received is the session's value.
C29_OnChangeValue ==
  /\ [](phase = "idle" => changeValueArg = value)
  /\ [][/\ (phase = "mount" /\ phase' # "mount")
             => (changeValueCalled' /\ changeValueArg' = value)
        /\ (RenderStep /\ value' # valueRef)
             => (changeValueCalled' /\ changeValueArg' = value')
        /\ (RenderStep /\ lastOp = "change" /\ value' = valueRef)
             => (~changeValueCalled' /\ changeValueArg' = changeValueArg)]_vars

\* reached: a number is shown with a trailing separator after a text change
\* whose commit did not call onChangeValue
C29_Witness ==
  /\ phase = "idle" /\ ~changeValueCalled
  /\ IsNumber(value) /\ changeValueArg = value
  /\ EndsWith(text, DecimalSeparator)

\* ------------------------------------------------------------------ C30

\* the step in which the owner changes an option or the mask
ReconfigureStep == phase = "idle" /\ cfg' # cfg

\* the number lies within the bounds of the options
InsideBounds(v, options) ==
  /\ IsSet(options.minimumValue) => v.n >= options.minimumValue.n
  /\ IsSet(options.maximumValue) => v.n <= options.maximumValue.n

\* the bounds of the options leave room for a value
BoundsOrdered(options) ==
  (IsSet(options.minimumValue) /\ IsSet(options.maximumValue))
    => options.minimumValue.n <= options.maximumValue.n

\* the text is written in the mask: the currency symbol is shown in mask
\* "currency" and in no other
InMask(t, mask) == (t = <<>>) \/ (Includes(t, "$") <=> mask = "currency")

\* C30: when an option or the mask changes, the session is left with the
\* state that setValue(previous value) produces under the new options: value,
\* rawDigits, text, sign and error are those of that call, a number lies
\* within the new bounds, and the text is rendered in the new mask.
C30_Reconfigure ==
  [][ReconfigureStep =>
        \E s \in {setValue(value, cfg')} :
          /\ value' = s.value
          /\ rawDigits' = s.rawDigits
          /\ text' = s.text
          /\ isNegative' = s.isNegative
          /\ error' = s.error
          /\ (IsNumber(value') /\ BoundsOrdered(cfg')) => InsideBounds(value', cfg')
          /\ InMask(text', cfg'.mask)]_vars

\* reached: a change of options has moved the value of the session
C30_Witness ==
  /\ phase = "pending" /\ lastOp = "reconfigure"
  /\ IsNumber(valueRef) /\ IsNumber(value) /\ value # valueRef
  /\ ~InsideBounds(valueRef, cfg) /\ InsideBounds(value, cfg)

\* ------------------------------------------------------------------ C31
\* the mount effects of a session created with the value lastSet have run
Mounted == phase = "pending" /\ lastOp = "init"

\* C31: once its mount effects have run, a session created with the value v
\* holds the tuple (value, text, rawDigits, sign, error) that setValue(v)
\* leaves in a session created with null; an initial value truncated by
\* maxDigits therefore still reports "Maximum digits is N".
C31_InitAgreesWithSet ==
  Mounted => Tuple(Current) = Tuple(setValue(lastSet, cfg))

\* ------------------------------------------------------------------ C32
\* a text change whose parsed value differs from the value held before it is
\* being processed
TextChangedValue ==
  /\ masked.phase = "pending" /\ masked.lastOp = "change"
  /\ masked.lastParsed.value # masked.before

\* nothing is scheduled, and the value prop, the value of the hook and the
\* last argument of onChangeValue are the parsed value
Converged ==
  /\ masked.phase = "idle"
  /\ masked.valueProp = masked.lastParsed.value
  /\ masked.value = masked.lastParsed.value
  /\ masked.changeValueArg = masked.lastParsed.value

\* C32: with an owner that stores every argument of onChangeValue in the
\* value prop, a text change whose parsed value p differs from the current
\* value leads to a state in which no update is scheduled and the value prop,
\* the value of the hook and the last argument of onChangeValue all equal p.
C32_Converges == TextChangedValue ~> Converged

\* ------------------------------------------------------------------ C33
\* the last event was a text change for which parse returned an error
ParseErrorKept ==
  /\ masked.lastOp = "change" /\ masked.lastParsed.error # ErrNull

\* the effects have settled with the parse error as the error of the hook and
\* as the last argument of onValidationError
SettledWithParseError ==
  /\ masked.phase = "idle"
  /\ masked.error = masked.lastParsed.error
  /\ masked.validationErrorArg = masked.lastParsed.error

\* C33: after a text change for which parse returned an error, the effects
\* settle with that error as the error of the hook and as the last argument
\* of onValidationError, and it stays so until the next text change or change
\* of the value prop.
C33_KeepsParseError ==
  /\ (ParseErrorKept /\ masked.phase = "pending") ~> SettledWithParseError
  /\ []((ParseErrorKept /\ masked.phase = "idle") => SettledWithParseError)

\* ------------------------------------------------------------------ C34
\* the outcome of handing the displayed text back to handleChangeText
EchoedText == handleChangeText(Current, text, cfg)

\* C34: in every reachable state of the hook, handleChangeText applied to the
\* displayed text leaves value and text unchanged.
C34_TextFixedPoint ==
  /\ EchoedText.value = value
  /\ EchoedText.text = text

\* ------------------------------------------------------------------ C35
\* C35: in every reachable state, under either mask, the displayed text holds
\* at most one decimal separator.
C35_OneSeparator == Occurrences(text, ".") <= 1

\* ------------------------------------------------------------------ C36
\* the error of the session is the cap message
CapErrorShown == error # ErrNull /\ error[1] = "Maximum digits is "

\* the value last handed to setValue loses integer digits under the cap
TruncatingSet ==
  normaliseValue(lastSet, cfg, resolveFractionDigits(cfg).maxFractionDigits).hitMaxDigits

\* the last operation called setValue: a set, an option change, or a value
\* prop that differs from the value of the session
SetApplied ==
  \/ lastOp \in {"set", "reconfigure"}
  \/ /\ lastOp = "prop"
     /\ ~areValuesEqual(lastSet, valueRef, resolveFractionDigits(cfg).maxFractionDigits)

\* C36: directly after an accepted text change (integer part within
\* maxDigits, the empty text included) the error is never the cap message;
\* directly after a programmatic set that was applied (not a skipped echo of
\* the value prop) the cap message is shown only if the set truncated.
C36_CapErrorTransient ==
  /\ (Changing /\ ~CapExceeded(lastText)) => ~CapErrorShown
  /\ (phase = "pending" /\ SetApplied /\ CapErrorShown) => TruncatingSet

\* an accepted text change wipes the cap message left by a rejected one
C36_Witness ==
  /\ Changing /\ ~CapExceeded(lastText) /\ IsSet(cfg.maxDigits)
  /\ reported = CapMessage(cfg.maxDigits)
  /\ error = ErrNull /\ value # Null

\* ------------------------------------------------------------------ C37
\* a text change was rejected at the cap in the batch of another text change
RejectedInBatch == phase = "pending" /\ lastOp = "batched" /\ CapExceeded(lastText)

\* C37: when a cap-rejected text change is handled in the same batch as an
\* accepted one before it, its error is evaluated against the value and the
\* sign the accepted change produced.
C37_NoStaleRead ==
  RejectedInBatch => error = buildError(value, isNegative, TRUE, cfg)

CallUnclamped ==
  parseCurrencyFromDigits(call.digits,
    [call.options EXCEPT !.minimumValue = Undefined, !.maximumValue = Undefined])

\* C39: clampIncomingValue of the hook, clampValue of the formatter and the
\* inline clamping of parseCurrencyFromDigits return the same result for the
\* same value, allowNegative and bounds, and buildError and buildFormatterError
\* return the same message for the same inputs.
C39_ImplementationsAgree ==
  /\ (call.fn = "clampIncomingValue" /\ call.done)
       => call.out = clampValue(call.v, call.options)
  /\ (call.fn = "parseCurrencyFromDigits" /\ call.done /\ call.out # Null)
       => /\ call.out = clampValue(CallUnclamped, call.options)
          /\ call.out = clampIncomingValue(CallUnclamped, call.options)
  /\ (call.fn = "buildError" /\ call.done)
       => call.out = buildFormatterError(call.v, call.options.isNegative, call.hit,
                                         call.options)

\* a negative value under a minimum above the maximum, negatives forbidden:
\* all of the steps act, and the two functions both end at the maximum
C39_Witness ==
  /\ call.fn = "clampIncomingValue" /\ call.done
  /\ call.v = Int2Num(-1)
  /\ ~call.options.allowNegative
  /\ call.options.minimumValue = Int2Num(50)
  /\ call.options.maximumValue = Dec2Num(15, 1)
  /\ call.out = Dec2Num(15, 1)
  /\ clampValue(call.v, call.options) = Dec2Num(15, 1)

====
